---- MODULE Spec2Model ----
(***************************************************************************)
(* The credential store of twitter-client-mcp (loadSecrets,                *)
(* getCredentials, validateEnv, cleanupCredentials) and the startup path   *)
(* of the TypeScript sources (loadEnv, validateEnv,                        *)
(* TwitterIntegration.initialize, logger).                                 *)
(*                                                                         *)
(* The repository holds two builds of the store:                           *)
(*   "fallback"  src/unnamed/part_000: environment first, then .env file   *)
(*   "envonly"   src/dist/config.js:   environment only, cleanupCredentials*)
(* The variable build says which one is running.  Strings are JavaScript   *)
(* strings; Undefined is the JavaScript undefined.                         *)
(***************************************************************************)
EXTENDS Integers, Sequences, FiniteSets, TLC

Undefined == "<undefined>"
REDACTED == "[REDACTED]"

\* JavaScript truthiness of a string-or-undefined value.
Truthy(v) == v # Undefined /\ v # ""

MandatoryVars == <<"TWITTER_USERNAME", "TWITTER_PASSWORD", "TWITTER_EMAIL">>
OptionalTwitterVars ==
  <<"TWITTER_API_KEY", "TWITTER_API_SECRET_KEY", "TWITTER_ACCESS_TOKEN",
    "TWITTER_ACCESS_TOKEN_SECRET">>
optionalVars == OptionalTwitterVars \o <<"PROXY_URL">>
Range(s) == {s[i] : i \in DOMAIN s}
TwitterVars == Range(MandatoryVars) \cup Range(OptionalTwitterVars)
EnvVars == TwitterVars \cup {"PROXY_URL", "TWOFACTOR", "DEBUG"}

CredentialFields ==
  <<"username", "password", "email", "apiKey", "apiSecretKey", "accessToken",
    "accessTokenSecret", "proxyUrl">>
VarOf ==
  [username |-> "TWITTER_USERNAME", password |-> "TWITTER_PASSWORD",
   email |-> "TWITTER_EMAIL", apiKey |-> "TWITTER_API_KEY",
   apiSecretKey |-> "TWITTER_API_SECRET_KEY",
   accessToken |-> "TWITTER_ACCESS_TOKEN",
   accessTokenSecret |-> "TWITTER_ACCESS_TOKEN_SECRET",
   proxyUrl |-> "PROXY_URL"]

\* The credentials object literal built from a source of named values.
BuildCredentials(src) == [f \in Range(CredentialFields) |-> src[VarOf[f]]]

\* JSON.stringify of a credentials object: the fields in declaration order,
\* a field whose value is undefined left out.
JSONstringify(c) ==
  LET fs == SelectSeq(CredentialFields, LAMBDA f : c[f] # Undefined)
  IN  [i \in 1..Len(fs) |-> <<fs[i], c[fs[i]]>>]

\* JSON.parse of such a text, read back field by field (an absent field
\* reads as undefined).
JSONparse(j) ==
  [f \in Range(CredentialFields) |->
     IF \E i \in 1..Len(j) : j[i][1] = f
     THEN j[CHOOSE i \in 1..Len(j) : j[i][1] = f][2]
     ELSE Undefined]

(***************************************************************************)
(* The secret file.  A file is a sequence of lines, a line the sequence of *)
(* pieces that line.split('=') yields.                                     *)
(***************************************************************************)
FileOf(lines) == [exists |-> TRUE, lines |-> lines]
NoFile == [exists |-> FALSE, lines |-> <<>>]

FileComplete ==
  FileOf(<< <<"TWITTER_USERNAME", "bob">>, <<"TWITTER_PASSWORD", "s3cret">>,
            <<"TWITTER_EMAIL", "b@y.io">>, <<"TWITTER_API_KEY", "fk">>,
            <<"PROXY_URL", "http://fp">> >>)
FileMinimal ==
  FileOf(<< <<"TWITTER_USERNAME", "bob">>, <<"TWITTER_PASSWORD", "s3cret">>,
            <<"TWITTER_EMAIL", "b@y.io">> >>)
FileNoEmail ==
  FileOf(<< <<"TWITTER_USERNAME", "bob">>, <<"TWITTER_PASSWORD", "s3cret">> >>)
FileEmptyEmail ==
  FileOf(<< <<"TWITTER_USERNAME", "bob">>, <<"TWITTER_PASSWORD", "s3cret">>,
            <<"TWITTER_EMAIL", "">> >>)
FileEqInValue ==
  FileOf(<< <<"# credentials">>, <<"TWITTER_USERNAME", "bob">>,
            <<"TWITTER_PASSWORD", "s3", "cret">>,
            <<"TWITTER_EMAIL", "b@y.io">> >>)
FileQuoted ==
  FileOf(<< <<"TWITTER_USERNAME", "bob">>, <<"TWITTER_PASSWORD", "s3cret">>,
            <<"TWITTER_EMAIL", "'b@y.io'">> >>)
Files == {NoFile, FileComplete, FileMinimal, FileNoEmail, FileEmptyEmail,
          FileEqInValue, FileQuoted}

\* createHash('sha256').update(envContent).digest('hex'): a digest names its
\* content (no collisions among the files of the model).
Sha256Hex(content) == [digestOf |-> content]
\* process.env.ENV_FILE_HASH || null: <<>> is null, <<h>> a configured hash.
NoHash == <<>>

\* The reduce over envContent.split('\n'): key and value are the first two
\* pieces of the line; a later line overwrites an earlier one.
RECURSIVE ParseEnvLines(_, _)
ParseEnvLines(lines, acc) ==
  IF lines = <<>> THEN acc
  ELSE LET line == Head(lines)
           key == line[1]
           value == IF Len(line) >= 2 THEN line[2] ELSE Undefined
       IN  ParseEnvLines(Tail(lines),
             IF Truthy(key) /\ Truthy(value) /\ key \in EnvVars
             THEN [acc EXCEPT ![key] = value]
             ELSE acc)

ParseEnvFile(content) == ParseEnvLines(content, [v \in EnvVars |-> Undefined])

(***************************************************************************)
(* The protected region.  secretBuffer is NullBuffer (the JavaScript null) *)
(* or a region holding bytes.                                              *)
(***************************************************************************)
NullBuffer == [ref |-> FALSE, bytes |-> <<>>, zeroed |-> FALSE, locked |-> FALSE]
\* sodium_malloc + write: the region holding the serialized bundle.
Written(json) == [ref |-> TRUE, bytes |-> json, zeroed |-> FALSE, locked |-> FALSE]
\* sodium_mlock
Locked(buf) == [buf EXCEPT !.locked = TRUE]
\* sodium_memzero
Zeroed(buf) == [buf EXCEPT !.bytes = <<>>, !.zeroed = TRUE]

\* The fault argument of an operation names the sodium call that raises
\* during it: "none", "malloc", "mlock", "memzero" or "munlock".

ErrUnavailable == "Twitter credentials are required but not available."
ErrMissingFallback ==
  "Missing required Twitter credentials. Provide via environment variables or .env."
ErrMissingEnvOnly ==
  "Missing required Twitter credentials. Provide via environment variables."
ErrCannotProceed == "Cannot proceed without Twitter credentials: "
ErrIntegrity == "Integrity check failed: .env file hash does not match expected value."
ErrRequiredInFile ==
  "TWITTER_USERNAME, TWITTER_PASSWORD, and TWITTER_EMAIL are required in the .env file."
ErrRequiredInEnv ==
  "TWITTER_USERNAME, TWITTER_PASSWORD, and TWITTER_EMAIL are required in environment variables."
ErrNoEnt == "ENOENT: no such file or directory"
ErrSodium == "sodium call failed"
ErrSyntax == "SyntaxError: Unexpected token in JSON"

Builds == {"fallback", "envonly"}

VARIABLES
  build,              \* which build of the store runs
  env,                \* process.env
  file,               \* the content of the .env file, or NoFile
  EXPECTED_ENV_HASH,  \* process.env.ENV_FILE_HASH || null, read at start
  secretBuffer,
  secretLoaded,
  last,               \* what the last call did, as its caller sees it
  everLoaded,         \* a load has succeeded
  retrieved           \* getCredentials calls that returned since the last successful load

storeVars ==
  <<build, env, file, EXPECTED_ENV_HASH, secretBuffer, secretLoaded, last,
    everLoaded, retrieved>>

\* A call's observation: how it ended, what it returned or raised, which
\* sources it read, which environment values it wrote, what it logged.
\* stored: the call put a bundle into the protected region and marked the
\* store loaded (a successful load).
Observation(op, threw, error, value, stored, envRead, fileRead, envWritten, logs) ==
  [op |-> op, threw |-> threw, error |-> error, value |-> value,
   stored |-> stored, envRead |-> envRead, fileRead |-> fileRead,
   envWritten |-> envWritten, logs |-> logs]

LogLine(level, text, args) == [level |-> level, text |-> text, args |-> args]

HasMandatory(src) ==
  /\ Truthy(src["TWITTER_USERNAME"])
  /\ Truthy(src["TWITTER_PASSWORD"])
  /\ Truthy(src["TWITTER_EMAIL"])

\* The process.env assignments after the region is locked: the three
\* mandatory names always, an optional TWITTER_* name when the source the
\* bundle came from (process.env itself, or envVars of the file) has it.
EnvWrites(src) ==
  Range(MandatoryVars) \cup {v \in Range(OptionalTwitterVars) : Truthy(src[v])}

RedactEnv(e, src) ==
  [v \in EnvVars |-> IF v \in EnvWrites(src) THEN REDACTED ELSE e[v]]

\* stringify, sodium_malloc, write, sodium_mlock, redact, secretLoaded = true.
\* A raising sodium_malloc leaves everything as it was; a raising
\* sodium_mlock leaves the written region referenced.
StoreBundle(credentials, e, src, buf, loaded, fault) ==
  LET json == JSONstringify(credentials) IN
  IF fault = "malloc"
  THEN [threw |-> TRUE, buf |-> buf, loaded |-> loaded, env |-> e,
        envWritten |-> {}]
  ELSE IF fault = "mlock"
  THEN [threw |-> TRUE, buf |-> Written(json), loaded |-> loaded, env |-> e,
        envWritten |-> {}]
  ELSE [threw |-> FALSE, buf |-> Locked(Written(json)), loaded |-> TRUE,
        env |-> RedactEnv(e, src), envWritten |-> EnvWrites(src)]

\* The try block without the integrity check.
LoadFromFileNoHash(e, f, hash, buf, loaded, fault) ==
  LET unchanged(msg) ==
        [message |-> <<msg>>, buf |-> buf, loaded |-> loaded, env |-> e,
         envWritten |-> {}]
      envVars == ParseEnvFile(f.lines)
      st == StoreBundle(BuildCredentials(envVars), e, envVars, buf, loaded, fault)
  IN  IF ~f.exists THEN unchanged(ErrNoEnt)
      ELSE IF ~HasMandatory(envVars) THEN unchanged(ErrRequiredInFile)
      ELSE [message |-> IF st.threw THEN <<ErrSodium>> ELSE <<>>,
            buf |-> st.buf, loaded |-> st.loaded, env |-> st.env,
            envWritten |-> st.envWritten]

\* The try block that overwrites the mandatory names before it checks them.
LoadFromFileScrubsFirst(e, f, hash, buf, loaded, fault) ==
  LET scrubbed == RedactEnv(e, [v \in EnvVars |-> Undefined])
      failed(msg, e2) ==
        [message |-> <<msg>>, buf |-> buf, loaded |-> loaded, env |-> e2,
         envWritten |-> {}]
      envVars == ParseEnvFile(f.lines)
      st == StoreBundle(BuildCredentials(envVars), e, envVars, buf, loaded, fault)
  IN  IF ~f.exists THEN failed(ErrNoEnt, e)
      ELSE IF hash # NoHash /\ Sha256Hex(f.lines) # hash[1]
      THEN failed(ErrIntegrity, e)
      ELSE IF ~HasMandatory(envVars) THEN failed(ErrRequiredInFile, scrubbed)
      ELSE [message |-> IF st.threw THEN <<ErrSodium>> ELSE <<>>,
            buf |-> st.buf, loaded |-> st.loaded, env |-> st.env,
            envWritten |-> st.envWritten]

\* The try block of loadSecrets (part_000 lines 76-123): the message of the
\* error it raises, or <<>>, with the state it leaves.
LoadFromFile(e, f, hash, buf, loaded, fault) ==
  LET unchanged(msg) ==
        [message |-> <<msg>>, buf |-> buf, loaded |-> loaded, env |-> e,
         envWritten |-> {}]
      envVars == ParseEnvFile(f.lines)
      st == StoreBundle(BuildCredentials(envVars), e, envVars, buf, loaded, fault)
  IN  IF ~f.exists THEN unchanged(ErrNoEnt)
      ELSE IF hash # NoHash /\ Sha256Hex(f.lines) # hash[1]
      THEN unchanged(ErrIntegrity)
      ELSE IF ~HasMandatory(envVars) THEN unchanged(ErrRequiredInFile)
      ELSE [message |-> IF st.threw THEN <<ErrSodium>> ELSE <<>>,
            buf |-> st.buf, loaded |-> st.loaded, env |-> st.env,
            envWritten |-> st.envWritten]

\* loadSecrets of the build with the file fallback (part_000 lines 40-129).
loadSecretsFallback(e, f, hash, buf, loaded, fault) ==
  IF loaded
  THEN [buf |-> buf, loaded |-> loaded, env |-> e,
        obs |-> Observation("load", FALSE, <<>>, <<>>, FALSE, FALSE, FALSE, {}, <<>>)]
  ELSE IF HasMandatory(e)
  THEN LET st == StoreBundle(BuildCredentials(e), e, e, buf, loaded, fault) IN
       [buf |-> st.buf, loaded |-> st.loaded, env |-> st.env,
        obs |-> IF st.threw
                THEN Observation("load", TRUE, <<ErrSodium>>, <<>>, FALSE, TRUE,
                                 FALSE, {}, <<>>)
                ELSE Observation("load", FALSE, <<>>, <<>>, TRUE, TRUE, FALSE,
                       st.envWritten,
                       <<LogLine("info",
                           "Using Twitter credentials from external environment variables.",
                           <<>>)>>)]
  ELSE LET r == LoadFromFile(e, f, hash, buf, loaded, fault) IN
       [buf |-> r.buf, loaded |-> r.loaded, env |-> r.env,
        obs |-> IF r.message # <<>>
                THEN Observation("load", TRUE, <<ErrCannotProceed>> \o r.message,
                       <<>>, FALSE, TRUE, TRUE, {},
                       <<LogLine("error", "Failed to load .env: ", r.message)>>)
                ELSE Observation("load", FALSE, <<>>, <<>>, TRUE, TRUE, TRUE,
                       r.envWritten,
                       <<LogLine("info",
                           "Loaded Twitter credentials from .env file at: ",
                           <<"ENV_FILE_PATH">>)>>)]

\* loadSecrets of the environment-only build (dist/config.js lines 33-77).
loadSecretsEnvOnly(e, buf, loaded, fault) ==
  IF loaded
  THEN [buf |-> buf, loaded |-> loaded, env |-> e,
        obs |-> Observation("load", FALSE, <<>>, <<>>, FALSE, FALSE, FALSE, {}, <<>>)]
  ELSE IF ~HasMandatory(e)
  THEN [buf |-> buf, loaded |-> loaded, env |-> e,
        obs |-> Observation("load", TRUE, <<ErrRequiredInEnv>>, <<>>, FALSE, TRUE,
                            FALSE, {}, <<>>)]
  ELSE LET st == StoreBundle(BuildCredentials(e), e, e, buf, loaded, fault) IN
       [buf |-> st.buf, loaded |-> st.loaded, env |-> st.env,
        obs |-> IF st.threw
                THEN Observation("load", TRUE, <<ErrSodium>>, <<>>, FALSE, TRUE,
                                 FALSE, {}, <<>>)
                ELSE Observation("load", FALSE, <<>>, <<>>, TRUE, TRUE, FALSE,
                       st.envWritten,
                       <<LogLine("info",
                           "Loaded Twitter credentials from external environment variables.",
                           <<>>)>>)]

\* loadSecrets that takes the file when it is complete, whatever process.env holds.
loadSecretsFileFirst(b, e, f, hash, buf, loaded, fault) ==
  IF b = "fallback" /\ ~loaded /\ f.exists /\ HasMandatory(ParseEnvFile(f.lines))
  THEN loadSecretsFallback([v \in EnvVars |-> Undefined], f, hash, buf, loaded, fault)
  ELSE IF b = "fallback"
  THEN loadSecretsFallback(e, f, hash, buf, loaded, fault)
  ELSE loadSecretsEnvOnly(e, buf, loaded, fault)

\* loadSecrets without the secretLoaded guard.
loadSecretsNoGuard(b, e, f, hash, buf, loaded, fault) ==
  IF b = "fallback"
  THEN loadSecretsFallback(e, f, hash, buf, FALSE, fault)
  ELSE loadSecretsEnvOnly(e, buf, FALSE, fault)

loadSecrets(b, e, f, hash, buf, loaded, fault) ==
  IF b = "fallback"
  THEN loadSecretsFallback(e, f, hash, buf, loaded, fault)
  ELSE loadSecretsEnvOnly(e, buf, loaded, fault)

\* getCredentials that returns the bundle and keeps the region.
getCredentialsKeepsRegion(buf, loaded, fault) ==
  IF ~buf.ref
  THEN [buf |-> buf, loaded |-> loaded, threw |-> TRUE,
        error |-> <<ErrUnavailable>>, value |-> <<>>]
  ELSE [buf |-> buf, loaded |-> loaded, threw |-> FALSE,
        error |-> <<>>, value |-> <<JSONparse(buf.bytes)>>]

\* getCredentials (part_000 lines 144-154, dist/config.js lines 85-95):
\* read the region, zero it, unlock it, drop the reference, parse.
getCredentials(buf, loaded, fault) ==
  IF ~buf.ref
  THEN [buf |-> buf, loaded |-> loaded, threw |-> TRUE,
        error |-> <<ErrUnavailable>>, value |-> <<>>]
  ELSE IF fault = "memzero"
  THEN [buf |-> buf, loaded |-> loaded, threw |-> TRUE,
        error |-> <<ErrSodium>>, value |-> <<>>]
  ELSE IF fault = "munlock"
  THEN [buf |-> Zeroed(buf), loaded |-> loaded, threw |-> TRUE,
        error |-> <<ErrSodium>>, value |-> <<>>]
  ELSE IF buf.zeroed
  THEN [buf |-> NullBuffer, loaded |-> FALSE, threw |-> TRUE,
        error |-> <<ErrSyntax>>, value |-> <<>>]
  ELSE [buf |-> NullBuffer, loaded |-> FALSE, threw |-> FALSE,
        error |-> <<>>, value |-> <<JSONparse(buf.bytes)>>]

\* v.toLowerCase() on the names of optionalVars.
ToLowerCase ==
  [TWITTER_API_KEY |-> "twitter_api_key",
   TWITTER_API_SECRET_KEY |-> "twitter_api_secret_key",
   TWITTER_ACCESS_TOKEN |-> "twitter_access_token",
   TWITTER_ACCESS_TOKEN_SECRET |-> "twitter_access_token_secret",
   PROXY_URL |-> "proxy_url"]

\* obj[key] on a parsed credentials object.
Property(obj, key) == IF key \in DOMAIN obj THEN obj[key] ELSE Undefined

\* optionalVars.filter(v => !process.env[v] && !getCredentials()[v.toLowerCase()])
\* (part_000 line 167), element by element: getCredentials() is called for
\* each name that process.env lacks, and a raising call ends the filter.
RECURSIVE FilterMissing(_, _, _, _, _, _, _)
FilterMissing(vars, e, buf, loaded, fault, missing, gets) ==
  IF vars = <<>>
  THEN [buf |-> buf, loaded |-> loaded, threw |-> FALSE, error |-> <<>>,
        missing |-> missing, gets |-> gets]
  ELSE IF Truthy(e[Head(vars)])
  THEN FilterMissing(Tail(vars), e, buf, loaded, fault, missing, gets)
  ELSE LET g == getCredentials(buf, loaded, fault) IN
       IF g.threw
       THEN [buf |-> g.buf, loaded |-> g.loaded, threw |-> TRUE,
             error |-> g.error, missing |-> missing, gets |-> gets]
       ELSE FilterMissing(Tail(vars), e, g.buf, g.loaded, fault,
              IF Truthy(Property(g.value[1], ToLowerCase[Head(vars)]))
              THEN missing ELSE Append(missing, Head(vars)),
              gets + 1)

\* validateEnv of the build with the file fallback (part_000 lines 156-172).
validateEnvFallback(e, buf, loaded, fault) ==
  IF ~loaded \/ ~buf.ref
  THEN [buf |-> buf, loaded |-> loaded, gets |-> 0,
        obs |-> Observation("validate", TRUE, <<ErrMissingFallback>>, <<>>,
                            FALSE, FALSE, FALSE, {}, <<>>)]
  ELSE LET r == FilterMissing(optionalVars, e, buf, loaded, fault, <<>>, 0) IN
       [buf |-> r.buf, loaded |-> r.loaded, gets |-> r.gets,
        obs |-> IF r.threw
                THEN Observation("validate", TRUE, r.error, <<>>, FALSE, TRUE,
                                 FALSE, {}, <<>>)
                ELSE Observation("validate", FALSE, <<>>, <<>>, FALSE, TRUE,
                       FALSE, {},
                       (IF r.missing # <<>>
                        THEN <<LogLine("warn", "Missing optional variables: ",
                                       r.missing)>>
                        ELSE <<>>)
                       \o <<LogLine("info",
                              "Environment validation completed successfully",
                              <<>>)>>)]

\* validateEnv of the environment-only build (dist/config.js lines 97-102).
validateEnvEnvOnly(buf, loaded) ==
  [buf |-> buf, loaded |-> loaded, gets |-> 0,
   obs |-> IF ~loaded \/ ~buf.ref
           THEN Observation("validate", TRUE, <<ErrMissingEnvOnly>>, <<>>,
                            FALSE, FALSE, FALSE, {}, <<>>)
           ELSE Observation("validate", FALSE, <<>>, <<>>, FALSE, FALSE, FALSE,
                  {},
                  <<LogLine("info",
                      "Environment validation completed successfully", <<>>)>>)]

validateEnv(b, e, buf, loaded, fault) ==
  IF b = "fallback"
  THEN validateEnvFallback(e, buf, loaded, fault)
  ELSE validateEnvEnvOnly(buf, loaded)

\* cleanupCredentials that zeroes and unlocks the region and keeps the
\* reference and the flag.
cleanupCredentialsKeepsState(buf, loaded, fault) ==
  [buf |-> IF buf.ref THEN Zeroed(buf) ELSE buf, loaded |-> loaded,
   obs |-> Observation("clear", FALSE, <<>>, <<>>, FALSE, FALSE, FALSE, {},
                       <<>>)]

\* cleanupCredentials (dist/config.js lines 104-117).
cleanupCredentials(buf, loaded, fault) ==
  IF ~buf.ref
  THEN [buf |-> buf, loaded |-> loaded,
        obs |-> Observation("clear", FALSE, <<>>, <<>>, FALSE, FALSE, FALSE, {},
                            <<>>)]
  ELSE IF fault \in {"memzero", "munlock"}
  THEN [buf |-> IF fault = "munlock" THEN Zeroed(buf) ELSE buf,
        loaded |-> loaded,
        obs |-> Observation("clear", FALSE, <<>>, <<>>, FALSE, FALSE, FALSE, {},
                  <<LogLine("error", "Error clearing credentials: ",
                            <<ErrSodium>>)>>)]
  ELSE [buf |-> NullBuffer, loaded |-> FALSE,
        obs |-> Observation("clear", FALSE, <<>>, <<>>, FALSE, FALSE, FALSE, {},
                  <<LogLine("info", "Credentials cleared securely", <<>>)>>)]

(***************************************************************************)
(* The store as a state machine: its four operations, called in any order. *)
(***************************************************************************)
MaxRetrieved == 2
Min(a, b) == IF a < b THEN a ELSE b

\* process.env with the mandatory names u, p, m and the optional names of o set.
EnvOf(u, p, m, o) ==
  [v \in EnvVars |->
     CASE v = "TWITTER_USERNAME" -> u
       [] v = "TWITTER_PASSWORD" -> p
       [] v = "TWITTER_EMAIL" -> m
       [] v = "TWITTER_API_KEY" -> IF v \in o THEN "ek" ELSE Undefined
       [] v = "TWITTER_API_SECRET_KEY" -> IF v \in o THEN "esk" ELSE Undefined
       [] v = "TWITTER_ACCESS_TOKEN" -> IF v \in o THEN "et" ELSE Undefined
       [] v = "TWITTER_ACCESS_TOKEN_SECRET" -> IF v \in o THEN "ets" ELSE Undefined
       [] v = "PROXY_URL" -> IF v \in o THEN "http://ep" ELSE Undefined
       [] v = "DEBUG" -> IF v \in o THEN "true" ELSE Undefined
       [] OTHER -> Undefined]

EnvChoices ==
  {EnvOf(u, p, m, o) :
     u \in {Undefined, "alice"}, p \in {Undefined, "hunter2"},
     m \in {Undefined, "", "a@x.io"}, o \in SUBSET Range(optionalVars)}

HashChoices ==
  {NoHash, <<Sha256Hex(FileComplete.lines)>>, <<Sha256Hex(FileNoEmail.lines)>>}

\* The environment-only build reads neither the file nor ENV_FILE_HASH.
StoreInit ==
  /\ build \in Builds
  /\ env \in EnvChoices
  /\ file \in IF build = "fallback" THEN Files ELSE {NoFile, FileComplete}
  /\ EXPECTED_ENV_HASH \in IF build = "fallback" THEN HashChoices ELSE {NoHash}
  /\ secretBuffer = NullBuffer
  /\ secretLoaded = FALSE
  /\ last = Observation("start", FALSE, <<>>, <<>>, FALSE, FALSE, FALSE, {}, <<>>)
  /\ everLoaded = FALSE
  /\ retrieved = 0

Load(fault) ==
  LET r == loadSecrets(build, env, file, EXPECTED_ENV_HASH, secretBuffer,
                       secretLoaded, fault)
  IN  /\ secretBuffer' = r.buf
      /\ secretLoaded' = r.loaded
      /\ env' = r.env
      /\ last' = r.obs
      /\ everLoaded' = (everLoaded \/ r.obs.stored)
      /\ retrieved' = IF r.obs.stored THEN 0 ELSE retrieved
      /\ UNCHANGED <<build, file, EXPECTED_ENV_HASH>>

Retrieve(fault) ==
  LET g == getCredentials(secretBuffer, secretLoaded, fault)
  IN  /\ secretBuffer' = g.buf
      /\ secretLoaded' = g.loaded
      /\ last' = Observation("retrieve", g.threw, g.error, g.value, FALSE,
                             FALSE, FALSE, {}, <<>>)
      /\ retrieved' = IF g.threw THEN retrieved
                      ELSE Min(retrieved + 1, MaxRetrieved)
      /\ UNCHANGED <<build, env, file, EXPECTED_ENV_HASH, everLoaded>>

Validate(fault) ==
  LET r == validateEnv(build, env, secretBuffer, secretLoaded, fault)
  IN  /\ secretBuffer' = r.buf
      /\ secretLoaded' = r.loaded
      /\ last' = r.obs
      /\ retrieved' = Min(retrieved + r.gets, MaxRetrieved)
      /\ UNCHANGED <<build, env, file, EXPECTED_ENV_HASH, everLoaded>>

Clear(fault) ==
  /\ build = "envonly"
  /\ LET r == cleanupCredentials(secretBuffer, secretLoaded, fault)
     IN  /\ secretBuffer' = r.buf
         /\ secretLoaded' = r.loaded
         /\ last' = r.obs
  /\ UNCHANGED <<build, env, file, EXPECTED_ENV_HASH, everLoaded, retrieved>>

(***************************************************************************)
(* The TypeScript sources: config.ts (loadEnv, config, validateEnv, the    *)
(* logger), the startup of the server (runServer) and                      *)
(* TwitterIntegration.initialize / cleanup.                                *)
(***************************************************************************)
VARIABLES
  envLoaded,      \* config.ts: envLoaded
  config,         \* config.ts: the exported config object
  scraper,        \* TwitterIntegration.scraper
  isInitialized,  \* TwitterIntegration.isInitialized
  pc,             \* where the startup task stands
  diag,           \* the lines written to process.stderr
  loginCall,      \* the arguments of the last scraper.login call, or <<>>
  connected,      \* server.connect(transport) has returned
  exitCode        \* the argument of process.exit, or -1 while running

tsVars ==
  <<envLoaded, config, scraper, isInitialized, pc, diag, loginCall, connected,
    exitCode>>

VARIABLES
  calls,          \* the callers of getCredentials: where each stands, what it got;
                  \* for the tools, the callers of the call-tool handler
  emitted         \* the last call of the redacting logger: its arguments, the line written

vars == <<storeVars, tsVars, calls, emitted>>

Callers == {"A", "B"}
NoCalls ==
  [c \in Callers |-> [pc |-> "idle", threw |-> FALSE, error |-> <<>>, value |-> <<>>]]
NoLine == [level |-> "", args |-> <<>>, line |-> ""]
\* No caller has asked for the credentials, nothing has been logged.
Quiet == calls = NoCalls /\ emitted = NoLine

NoScraper == [ref |-> FALSE, loggedIn |-> FALSE]
NewScraper == [ref |-> TRUE, loggedIn |-> FALSE]
NoConfig == [v \in EnvVars |-> Undefined]

TsIdle ==
  /\ envLoaded = FALSE
  /\ config = NoConfig
  /\ scraper = NoScraper
  /\ isInitialized = FALSE
  /\ diag = {}
  /\ loginCall = <<>>
  /\ connected = FALSE
  /\ exitCode = -1

Init == StoreInit /\ TsIdle /\ pc = "none" /\ Quiet

\* The sodium calls do not raise.
Next ==
  \/ Load("none") /\ UNCHANGED <<tsVars, calls, emitted>>
  \/ Retrieve("none") /\ UNCHANGED <<tsVars, calls, emitted>>
  \/ Validate("none") /\ UNCHANGED <<tsVars, calls, emitted>>
  \/ Clear("none") /\ UNCHANGED <<tsVars, calls, emitted>>

Spec == Init /\ [][Next]_vars

\* Any sodium call of an operation may raise.
FaultNext ==
  \/ \E fault \in {"none", "malloc", "mlock"} :
       Load(fault) /\ UNCHANGED <<tsVars, calls, emitted>>
  \/ \E fault \in {"none", "memzero", "munlock"} :
       Retrieve(fault) /\ UNCHANGED <<tsVars, calls, emitted>>
  \/ \E fault \in {"none", "memzero", "munlock"} :
       Validate(fault) /\ UNCHANGED <<tsVars, calls, emitted>>
  \/ \E fault \in {"none", "memzero", "munlock"} :
       Clear(fault) /\ UNCHANGED <<tsVars, calls, emitted>>

\* The initial states with none, one or all of the optional names set.
FaultInit ==
  /\ Init
  /\ \E u \in {Undefined, "alice"}, p \in {Undefined, "hunter2"},
        m \in {Undefined, "", "a@x.io"},
        o \in {{}, {"TWITTER_API_KEY"}, Range(optionalVars)} :
        env = EnvOf(u, p, m, o)

FaultSpec == FaultInit /\ [][FaultNext]_vars

\* logger.error / warn / info of config.ts: args.join(' '), written as is.
TsLogger(level, text, args) == LogLine(level, text, args)

\* trimmedLine.startsWith('#')
StartsWithHash(piece) == piece \in {"# credentials"}

\* valueParts.join('=')
RECURSIVE JoinEq(_)
JoinEq(parts) ==
  IF parts = <<>> THEN ""
  ELSE IF Len(parts) = 1 THEN parts[1]
  ELSE parts[1] \o "=" \o JoinEq(Tail(parts))

\* value.replace(/^["']|["']$/g, '') on the values of the model's files.
StripQuotes(value) == IF value = "'b@y.io'" THEN "b@y.io" ELSE value

\* The reduce of loadEnv (config.ts lines 58-68).
RECURSIVE TsParseEnvLines(_, _)
TsParseEnvLines(lines, acc) ==
  IF lines = <<>> THEN acc
  ELSE LET line == Head(lines)
           key == line[1]
           value == JoinEq(Tail(line))
       IN  TsParseEnvLines(Tail(lines),
             IF /\ line # <<"">>
                /\ ~StartsWithHash(key)
                /\ Truthy(key) /\ Truthy(value) /\ key \in EnvVars
             THEN [acc EXCEPT ![key] = StripQuotes(value)]
             ELSE acc)

requiredExternalVars ==
  <<"TWITTER_USERNAME", "TWITTER_PASSWORD", "TWITTER_EMAIL", "TWOFACTOR">>

\* requiredExternalVars.some(varName => process.env[varName])
hasExternalConfig(e) == \E i \in DOMAIN requiredExternalVars : Truthy(e[requiredExternalVars[i]])

\* loadEnv (config.ts lines 36-84): the environment it leaves and its lines.
loadEnv(e, f) ==
  IF hasExternalConfig(e)
  THEN [env |-> e,
        logs |-> {TsLogger("info",
                    "Using environment variables from external environment (system/container/CI).",
                    <<>>)}]
  ELSE IF ~f.exists
  THEN [env |-> e,
        logs |-> {TsLogger("warn", "No valid .env file found: ", <<ErrNoEnt>>)}]
  ELSE LET envVars == TsParseEnvLines(f.lines, NoConfig) IN
       [env |-> [v \in EnvVars |->
                   IF envVars[v] # Undefined /\ ~Truthy(e[v]) THEN envVars[v]
                   ELSE e[v]],
        logs |-> {TsLogger("info", "Loaded environment variables from .env file",
                           <<>>)}]

\* validateEnv of config.ts (lines 104-120): it only logs names.
tsValidateEnv(c) ==
  LET missingRequired == SelectSeq(requiredExternalVars, LAMBDA v : ~Truthy(c[v]))
      missingRecommended ==
        (IF Truthy(c["PROXY_URL"]) THEN <<>> ELSE <<"PROXY_URL">>) \o <<"DEBUG">>
  IN  (IF missingRequired # <<>>
       THEN {TsLogger("error", "Missing required variables: ", missingRequired)}
       ELSE {})
      \cup {TsLogger("warn", "Missing recommended variables: ", missingRecommended)}

hasApiCredentials(c) ==
  /\ Truthy(c["TWITTER_API_KEY"])
  /\ Truthy(c["TWITTER_API_SECRET_KEY"])
  /\ Truthy(c["TWITTER_ACCESS_TOKEN"])
  /\ Truthy(c["TWITTER_ACCESS_TOKEN_SECRET"])

\* x || ''
OrEmpty(v) == IF Truthy(v) THEN v ELSE ""

\* The arguments initialize passes to scraper.login
\* (twitter-integration.ts lines 75-84 and 103-107).
LoginArguments(c) ==
  IF hasApiCredentials(c)
  THEN <<OrEmpty(c["TWITTER_USERNAME"]), OrEmpty(c["TWITTER_PASSWORD"]),
         OrEmpty(c["TWITTER_EMAIL"]),
         IF Truthy(c["TWOFACTOR"]) THEN c["TWOFACTOR"] ELSE Undefined,
         c["TWITTER_API_KEY"], c["TWITTER_API_SECRET_KEY"],
         c["TWITTER_ACCESS_TOKEN"], c["TWITTER_ACCESS_TOKEN_SECRET"]>>
  ELSE <<c["TWITTER_USERNAME"], OrEmpty(c["TWITTER_PASSWORD"]),
         OrEmpty(c["TWITTER_EMAIL"])>>

\* The lines initialize writes before it calls scraper.login
\* (twitter-integration.ts lines 53-72).
InitializeLines(c) ==
  {TsLogger("info", "Retrieving Twitter credentials...", <<>>),
   TsLogger("info", "Retrieved credentials for user: ",
            <<c["TWITTER_USERNAME"], c["TWOFACTOR"]>>),
   TsLogger("info", "Logging in to Twitter...", <<>>)}
  \cup (IF hasApiCredentials(c) /\ ~Truthy(c["TWITTER_USERNAME"])
        THEN {TsLogger("warn", "No TWITTER_USERNAME provided for API authentication.",
                       <<>>)}
        ELSE {})

\* The lines of a failed initialize, up to runServer's catch and exit.
FailedStartLines(level, text, args, message) ==
  {TsLogger(level, text, args),
   TsLogger("error", "Failed to initialize Twitter client: ", <<message>>),
   TsLogger("error", "Failed to start server: ",
            <<"Error: Twitter client initialization failed: " \o message>>)}

TsEnvChoices ==
  {[e EXCEPT !["TWOFACTOR"] = t] : e \in EnvChoices, t \in {Undefined, "JBSWY3DP"}}

TsInit ==
  /\ build = "ts"
  /\ env \in TsEnvChoices
  /\ file \in Files
  /\ EXPECTED_ENV_HASH = NoHash
  /\ secretBuffer = NullBuffer
  /\ secretLoaded = FALSE
  /\ last = Observation("start", FALSE, <<>>, <<>>, FALSE, FALSE, FALSE, {}, <<>>)
  /\ everLoaded = FALSE
  /\ retrieved = 0
  /\ TsIdle
  /\ pc = "import"
  /\ Quiet

TsStoreUnchanged ==
  UNCHANGED <<build, file, EXPECTED_ENV_HASH, secretBuffer, secretLoaded, last,
              everLoaded, retrieved, calls, emitted>>

\* The import of config.ts: loadEnv() and the config object (lines 87-101).
LoadEnv ==
  /\ pc = "import"
  /\ ~envLoaded
  /\ LET r == loadEnv(env, file)
     IN  /\ env' = r.env
         /\ config' = r.env
         /\ diag' = diag \cup r.logs
  /\ envLoaded' = TRUE
  /\ pc' = "runServer"
  /\ UNCHANGED <<scraper, isInitialized, loginCall, connected, exitCode>>
  /\ TsStoreUnchanged

\* runServer up to the first await (config.ts lines 795-803) and initialize
\* up to its await of scraper.login (twitter-integration.ts lines 42-107).
RunServer ==
  /\ pc = "runServer"
  /\ scraper' = NewScraper
  /\ LET lines == {TsLogger("info", "Validating environment variables...", <<>>),
                   TsLogger("info", "Initializing Twitter integration...", <<>>)}
                  \cup tsValidateEnv(config) \cup InitializeLines(config)
     IN  IF ~hasApiCredentials(config) /\ ~Truthy(config["TWITTER_USERNAME"])
         THEN /\ diag' = diag \cup lines \cup
                   FailedStartLines("error",
                     "TWITTER_USERNAME is required for authentication", <<>>,
                     "Twitter authentication failed: Missing username")
              /\ pc' = "exited"
              /\ exitCode' = 1
              /\ UNCHANGED loginCall
         ELSE /\ diag' = diag \cup lines
              /\ loginCall' = LoginArguments(config)
              /\ pc' = "login"
              /\ UNCHANGED exitCode
  /\ UNCHANGED <<env, envLoaded, config, isInitialized, connected>>
  /\ TsStoreUnchanged

\* scraper.login settles (twitter-integration.ts lines 85-126).
LoginReturn(ok) ==
  /\ pc = "login"
  /\ IF ok
     THEN /\ scraper' = [scraper EXCEPT !.loggedIn = TRUE]
          /\ isInitialized' = TRUE
          /\ diag' = diag \cup
               {TsLogger("info",
                  IF hasApiCredentials(config)
                  THEN "Successfully logged in to Twitter with API credentials."
                  ELSE "Successfully logged in to Twitter with basic credentials.",
                  <<>>),
                TsLogger("info", "Twitter client initialized successfully.", <<>>)}
          /\ pc' = "connect"
          /\ UNCHANGED exitCode
     ELSE /\ diag' = diag \cup
               (IF hasApiCredentials(config)
                THEN FailedStartLines("error", "API authentication failed: ",
                       <<"login error">>,
                       "Twitter API authentication failed. Twitter auth occationally fails, you often just need to retry starting the server.")
                ELSE FailedStartLines("error",
                       "Failed to log in to Twitter with basic credentials: ",
                       <<"login error">>, "Twitter basic authentication failed"))
          /\ pc' = "exited"
          /\ exitCode' = 1
          /\ UNCHANGED <<scraper, isInitialized>>
  /\ UNCHANGED <<env, envLoaded, config, loginCall, connected>>
  /\ TsStoreUnchanged

\* server.connect(transport) settles (config.ts lines 805-808, 829-832).
Connect(ok) ==
  /\ pc = "connect"
  /\ IF ok
     THEN /\ connected' = TRUE
          /\ diag' = diag \cup
               {TsLogger("info", "Twitter Client MCP Server running on stdio", <<>>)}
          /\ pc' = "serving"
          /\ UNCHANGED exitCode
     ELSE /\ diag' = diag \cup
               {TsLogger("error", "Failed to start server: ", <<"connect error">>)}
          /\ pc' = "exited"
          /\ exitCode' = 1
          /\ UNCHANGED connected
  /\ UNCHANGED <<env, envLoaded, config, scraper, isInitialized, loginCall>>
  /\ TsStoreUnchanged

\* SIGINT / SIGTERM: cleanup (config.ts lines 811-824) and
\* TwitterIntegration.cleanup (twitter-integration.ts lines 516-530).
Shutdown(logoutOk) ==
  /\ pc = "serving"
  /\ diag' = diag \cup
       {TsLogger("info", "Shutting down Twitter Client MCP Server...", <<>>),
        IF logoutOk THEN TsLogger("info", "Logged out of Twitter.", <<>>)
        ELSE TsLogger("error", "Error during logout: ", <<"logout error">>)}
  /\ scraper' = NoScraper
  /\ isInitialized' = FALSE
  /\ pc' = "exited"
  /\ exitCode' = 0
  /\ UNCHANGED <<env, envLoaded, config, loginCall, connected>>
  /\ TsStoreUnchanged

TsNext ==
  \/ LoadEnv
  \/ RunServer
  \/ \E ok \in BOOLEAN : LoginReturn(ok)
  \/ \E ok \in BOOLEAN : Connect(ok)
  \/ \E ok \in BOOLEAN : Shutdown(ok)

TsSpec == TsInit /\ [][TsNext]_vars

(***************************************************************************)
(* The store at the level of characters and bytes: JSON.stringify,         *)
(* sodium_malloc(credentialsJson.length), Buffer.write, Buffer.toString    *)
(* and JSON.parse.  A text is a sequence of characters; a character is a   *)
(* one-character string or the name of a code point outside ASCII; a value *)
(* is <<>> (undefined) or <<text>>.                                        *)
(***************************************************************************)
Chars(s) == [i \in 1..Len(s) |-> SubSeq(s, i, i)]

\* The number of bytes of the character in UTF-8.
Utf8Length(c) ==
  CASE c = "U+00E9" -> 2
    [] c = "U+20AC" -> 3
    [] c = "U+FFFD" -> 3
    [] c = "U+1F600" -> 4
    [] OTHER -> 1

\* The number of UTF-16 code units of the character: what String.length counts.
Utf16Length(c) == IF c = "U+1F600" THEN 2 ELSE 1

\* The sums over the characters of a text are taken half by half.
RECURSIVE StringLength(_)
StringLength(text) ==
  IF text = <<>> THEN 0
  ELSE IF Len(text) = 1 THEN Utf16Length(text[1])
  ELSE StringLength(SubSeq(text, 1, Len(text) \div 2))
       + StringLength(SubSeq(text, Len(text) \div 2 + 1, Len(text)))

RECURSIVE ByteLength(_)
ByteLength(text) ==
  IF text = <<>> THEN 0
  ELSE IF Len(text) = 1 THEN Utf8Length(text[1])
  ELSE ByteLength(SubSeq(text, 1, Len(text) \div 2))
       + ByteLength(SubSeq(text, Len(text) \div 2 + 1, Len(text)))

\* A byte: <<c, k>> is the k-th byte of the encoding of character c, and
\* <<"0xdb", 1>> the byte sodium_malloc fills a fresh region with.

\* JSON.stringify of a string: quoted, with '"' and '\' escaped.
RECURSIVE Escape(_)
Escape(text) ==
  IF text = <<>> THEN <<>>
  ELSE (IF Head(text) \in {"\"", "\\"} THEN <<"\\", Head(text)>>
        ELSE <<Head(text)>>) \o Escape(Tail(text))

Quote(text) == <<"\"">> \o Escape(text) \o <<"\"">>

\* JSON.stringify of the credentials object: the members whose value is
\* defined, in declaration order.
RECURSIVE Members(_, _, _)
Members(c, fields, first) ==
  IF fields = <<>> THEN <<>>
  ELSE IF c[Head(fields)] = <<>> THEN Members(c, Tail(fields), first)
  ELSE (IF first THEN <<>> ELSE <<",">>)
       \o Quote(Chars(Head(fields))) \o <<":">> \o Quote(c[Head(fields)][1])
       \o Members(c, Tail(fields), FALSE)

StringifyChars(c) == <<"{">> \o Members(c, CredentialFields, TRUE) \o <<"}">>

\* buf.write(string) on a region of size bytes: the UTF-8 bytes of the
\* characters that fit whole; the rest of the region keeps what it held.
\* The characters are taken half by half: a half that fits is written whole,
\* and the writing stops in the first half that does not fit.
WriteUtf8(text, size) ==
  LET RECURSIVE Encode(_)
      Encode(t) ==
        IF t = <<>> THEN <<>>
        ELSE IF Len(t) = 1 THEN [k \in 1..Utf8Length(t[1]) |-> <<t[1], k>>]
        ELSE Encode(SubSeq(t, 1, Len(t) \div 2))
             \o Encode(SubSeq(t, Len(t) \div 2 + 1, Len(t)))
      RECURSIVE Fitting(_, _)
      Fitting(t, room) ==
        IF ByteLength(t) <= room THEN Encode(t)
        ELSE IF Len(t) = 1 THEN <<>>
        ELSE IF ByteLength(SubSeq(t, 1, Len(t) \div 2)) <= room
        THEN Encode(SubSeq(t, 1, Len(t) \div 2))
             \o Fitting(SubSeq(t, Len(t) \div 2 + 1, Len(t)),
                        room - ByteLength(SubSeq(t, 1, Len(t) \div 2)))
        ELSE Fitting(SubSeq(t, 1, Len(t) \div 2), room)
      Fill(bytes) == bytes \o [i \in 1..(size - Len(bytes)) |-> <<"0xdb", 1>>]
  IN  Fill(Fitting(text, size))

\* buf.toString('utf8'): a whole encoding decodes to its character, any
\* other byte to U+FFFD.
\* A whole encoding begins at position j when Whole(j); a first byte lies in
\* no other encoding, so the decoder reads each such byte as a first byte
\* and skips the bytes the encoding covers.  The positions are taken half
\* by half.
DecodeUtf8(bytes) ==
  LET Whole(j) ==
        /\ bytes[j][1] # "0xdb"
        /\ j + Utf8Length(bytes[j][1]) - 1 <= Len(bytes)
        /\ \A k \in 1..Utf8Length(bytes[j][1]) :
             bytes[j + k - 1] = <<bytes[j][1], k>>
      Covered(j) ==
        \E s \in 1..(j - 1) :
          /\ j - s <= 3
          /\ s + Utf8Length(bytes[s][1]) - 1 >= j
          /\ Whole(s)
      RECURSIVE Decoded(_, _)
      Decoded(from, to) ==
        IF from > to THEN <<>>
        ELSE IF from = to
        THEN IF Whole(from) THEN <<bytes[from][1]>>
             ELSE IF Covered(from) THEN <<>>
             ELSE <<"U+FFFD">>
        ELSE Decoded(from, (from + to) \div 2) \o Decoded((from + to) \div 2 + 1, to)
  IN  Decoded(1, Len(bytes))

\* JSON.parse on the string that opens at position i - 1 of cs: its text
\* and the position after its closing quote.
RECURSIVE ScanString(_, _, _)
ScanString(cs, i, acc) ==
  IF i > Len(cs) THEN [ok |-> FALSE, text |-> acc, next |-> i]
  ELSE IF cs[i] = "\"" THEN [ok |-> TRUE, text |-> acc, next |-> i + 1]
  ELSE IF cs[i] = "\\"
  THEN IF i + 1 <= Len(cs) /\ cs[i + 1] \in {"\"", "\\"}
       THEN ScanString(cs, i + 2, Append(acc, cs[i + 1]))
       ELSE [ok |-> FALSE, text |-> acc, next |-> i]
  ELSE ScanString(cs, i + 1, Append(acc, cs[i]))

ParseString(cs, i) ==
  IF i <= Len(cs) /\ cs[i] = "\"" THEN ScanString(cs, i + 1, <<>>)
  ELSE [ok |-> FALSE, text |-> <<>>, next |-> i]

\* The members of an object from position i to the closing brace, which
\* must end the text.
RECURSIVE ParseMembers(_, _, _)
ParseMembers(cs, i, acc) ==
  LET failed == [ok |-> FALSE, members |-> acc]
      k == ParseString(cs, i)
      v == ParseString(cs, k.next + 1)
  IN  IF ~k.ok \/ k.next > Len(cs) THEN failed
      ELSE IF cs[k.next] # ":" \/ ~v.ok \/ v.next > Len(cs) THEN failed
      ELSE IF cs[v.next] = ","
      THEN ParseMembers(cs, v.next + 1, Append(acc, <<k.text, v.text>>))
      ELSE IF cs[v.next] = "}" /\ v.next = Len(cs)
      THEN [ok |-> TRUE, members |-> Append(acc, <<k.text, v.text>>)]
      ELSE failed

\* JSON.parse of the text of an object with string members.
JSONparseChars(cs) ==
  IF Len(cs) < 2 \/ cs[1] # "{" THEN [ok |-> FALSE, members |-> <<>>]
  ELSE IF cs[2] = "}" THEN [ok |-> Len(cs) = 2, members |-> <<>>]
  ELSE ParseMembers(cs, 2, <<>>)

\* The parsed object read field by field: <<>> for an absent member.
ObjectOf(members) ==
  [f \in Range(CredentialFields) |->
     IF \E i \in 1..Len(members) : members[i][1] = Chars(f)
     THEN <<members[CHOOSE i \in 1..Len(members) : members[i][1] = Chars(f)][2]>>
     ELSE <<>>]

\* loadSecrets on the environment path (part_000 lines 43-75) with the
\* region sized and written as lines 57-59 do it.
loadSecretsBytes(e) ==
  LET credentials == [f \in Range(CredentialFields) |-> e[VarOf[f]]]
      credentialsJson == StringifyChars(credentials)
      written == {v \in TwitterVars :
                    v \in Range(MandatoryVars)
                    \/ (e[v] # <<>> /\ e[v][1] # <<>>)}
  IN  [buf |-> [ref |-> TRUE,
                bytes |-> WriteUtf8(credentialsJson, StringLength(credentialsJson)),
                zeroed |-> FALSE, locked |-> TRUE],
       loaded |-> TRUE,
       env |-> [v \in EnvVars |-> IF v \in written THEN <<Chars(REDACTED)>> ELSE e[v]],
       credentials |-> credentials,
       envWritten |-> written]

\* getCredentials (part_000 lines 144-154) on the bytes of the region.
getCredentialsBytes(buf, loaded) ==
  IF ~buf.ref
  THEN [buf |-> buf, loaded |-> loaded, threw |-> TRUE,
        error |-> <<ErrUnavailable>>, value |-> <<>>]
  ELSE LET parsed == JSONparseChars(DecodeUtf8(buf.bytes)) IN
       IF parsed.ok
       THEN [buf |-> NullBuffer, loaded |-> FALSE, threw |-> FALSE,
             error |-> <<>>, value |-> <<ObjectOf(parsed.members)>>]
       ELSE [buf |-> NullBuffer, loaded |-> FALSE, threw |-> TRUE,
             error |-> <<ErrSyntax>>, value |-> <<>>]

MaxValueLen == 2
Alphabet == {"a", "\"", "\\", "U+00E9", "U+20AC", "U+1F600"}
TextChoices == UNION {[1..n -> Alphabet] : n \in 1..MaxValueLen}

\* process.env with the mandatory names set and the optional names of o set.
EnvOfChars(u, p, o) ==
  [v \in EnvVars |->
     CASE v = "TWITTER_USERNAME" -> <<u>>
       [] v = "TWITTER_PASSWORD" -> <<p>>
       [] v = "TWITTER_EMAIL" -> <<Chars("a@x.io")>>
       [] v \in o -> <<Chars("k3y")>>
       [] OTHER -> <<>>]

BytesInit ==
  /\ build = "bytes"
  /\ \E u \in TextChoices, p \in {Chars("hunter2"), <<"p", "U+00E9">>},
        o \in SUBSET Range(optionalVars) : env = EnvOfChars(u, p, o)
  /\ file = NoFile
  /\ EXPECTED_ENV_HASH = NoHash
  /\ secretBuffer = NullBuffer
  /\ secretLoaded = FALSE
  /\ last = Observation("start", FALSE, <<>>, <<>>, FALSE, FALSE, FALSE, {}, <<>>)
  /\ everLoaded = FALSE
  /\ retrieved = 0
  /\ TsIdle
  /\ pc = "none"
  /\ Quiet

\* The load at import.  Its observation carries, as value, the credentials
\* object the load built.
LoadBytes ==
  /\ last.op = "start"
  /\ LET r == loadSecretsBytes(env)
     IN  /\ secretBuffer' = r.buf
         /\ secretLoaded' = r.loaded
         /\ env' = r.env
         /\ last' = Observation("load", FALSE, <<>>, <<r.credentials>>, TRUE,
                                TRUE, FALSE, r.envWritten, <<>>)
  /\ everLoaded' = TRUE
  /\ UNCHANGED <<build, file, EXPECTED_ENV_HASH, retrieved>>

RetrieveBytes ==
  /\ last.op = "load"
  /\ LET g == getCredentialsBytes(secretBuffer, secretLoaded)
     IN  /\ secretBuffer' = g.buf
         /\ secretLoaded' = g.loaded
         /\ last' = Observation("retrieve", g.threw, g.error, g.value, FALSE,
                                FALSE, FALSE, {}, <<>>)
         /\ retrieved' = IF g.threw THEN retrieved ELSE retrieved + 1
  /\ UNCHANGED <<build, env, file, EXPECTED_ENV_HASH, everLoaded>>

BytesNext ==
  \/ LoadBytes /\ UNCHANGED <<tsVars, calls, emitted>>
  \/ RetrieveBytes /\ UNCHANGED <<tsVars, calls, emitted>>

BytesSpec == BytesInit /\ [][BytesNext]_vars

(***************************************************************************)
(* Two callers of getCredentials.  A caller is an async task (an           *)
(* initialize() in flight): it is scheduled, and later its getCredentials  *)
(* call runs.  getCredentials holds no await, so the call runs from its    *)
(* first statement to its return with no other task's statement between.   *)
(***************************************************************************)
\* The load at import, before any caller runs.
LoadAtImport ==
  /\ calls = NoCalls
  /\ last.op = "start"
  /\ Load("none")
  /\ UNCHANGED <<tsVars, calls, emitted>>

\* Caller c asks for the credentials: its task is queued.
Invoke(c) ==
  /\ last.op # "start"
  /\ calls[c].pc = "idle"
  /\ calls' = [calls EXCEPT ![c].pc = "pending"]
  /\ UNCHANGED <<storeVars, tsVars, emitted>>

\* getCredentials that hands out the bundle and leaves the store to a later
\* statement of the caller.
RunKeepsBundle(c) ==
  /\ calls[c].pc = "pending"
  /\ LET g == getCredentials(secretBuffer, secretLoaded, "none")
     IN  /\ calls' = [calls EXCEPT ![c] = [pc |-> "done", threw |-> g.threw,
                                           error |-> g.error, value |-> g.value]]
         /\ last' = Observation("retrieve", g.threw, g.error, g.value, FALSE,
                                FALSE, FALSE, {}, <<>>)
  /\ UNCHANGED <<build, env, file, EXPECTED_ENV_HASH, secretBuffer, secretLoaded,
                 everLoaded, retrieved>>
  /\ UNCHANGED <<tsVars, emitted>>

\* The queued call of caller c runs: getCredentials from entry to return.
Run(c) ==
  /\ calls[c].pc = "pending"
  /\ Retrieve("none")
  /\ calls' = [calls EXCEPT ![c] = [pc |-> "done", threw |-> last'.threw,
                                    error |-> last'.error, value |-> last'.value]]
  /\ UNCHANGED <<tsVars, emitted>>

RaceNext ==
  \/ LoadAtImport
  \/ \E c \in Callers : Invoke(c)
  \/ \E c \in Callers : Run(c)

RaceSpec == FaultInit /\ [][RaceNext]_vars

(***************************************************************************)
(* The process of a build with the store, from the import of config.js to  *)
(* the end of the process: loadSecrets at import, runServer (validateEnv,  *)
(* initialize with getCredentials, login, connect), shutdown, and the      *)
(* 'exit' event with the handler that config.js registers under DEBUG.     *)
(***************************************************************************)
StartInit ==
  /\ build \in Builds
  /\ \E u \in {Undefined, "alice"}, p \in {Undefined, "hunter2"},
        m \in {Undefined, "", "a@x.io"},
        o \in {{}, {"TWITTER_API_KEY"}, Range(optionalVars)},
        d \in SUBSET {"DEBUG"} : env = EnvOf(u, p, m, o \cup d)
  /\ file \in IF build = "fallback" THEN Files ELSE {NoFile}
  /\ EXPECTED_ENV_HASH \in IF build = "fallback" THEN HashChoices ELSE {NoHash}
  /\ secretBuffer = NullBuffer
  /\ secretLoaded = FALSE
  /\ last = Observation("start", FALSE, <<>>, <<>>, FALSE, FALSE, FALSE, {}, <<>>)
  /\ everLoaded = FALSE
  /\ retrieved = 0
  /\ TsIdle
  /\ pc = "none"
  /\ Quiet

\* The import of config.js: loadSecrets() (part_000 line 131, dist/config.js
\* line 79).  A load that raises ends the process with an uncaught error.
ImportConfig(fault) ==
  /\ pc = "none"
  /\ last.op = "start"
  /\ Load(fault)
  /\ pc' = IF last'.threw THEN "exited" ELSE "runServer"
  /\ exitCode' = IF last'.threw THEN 1 ELSE exitCode
  /\ UNCHANGED <<envLoaded, config, scraper, isInitialized, diag, loginCall,
                 connected, calls, emitted>>

\* runServer up to its first await: validateEnv(), then initialize with
\* new Scraper() and getCredentials() up to the await of scraper.login
\* (config.ts lines 795-803, dist/config.d.ts lines 61-81).  An error of
\* either call reaches the catch of runServer and process.exit(1).
RunServerStore(fault) ==
  /\ pc = "runServer"
  /\ LET v == validateEnv(build, env, secretBuffer, secretLoaded, fault)
         g == getCredentials(v.buf, v.loaded, fault)
     IN  IF v.obs.threw
         THEN /\ secretBuffer' = v.buf
              /\ secretLoaded' = v.loaded
              /\ last' = v.obs
              /\ retrieved' = Min(retrieved + v.gets, MaxRetrieved)
              /\ pc' = "exited"
              /\ exitCode' = 1
              /\ UNCHANGED <<scraper, loginCall>>
         ELSE /\ secretBuffer' = g.buf
              /\ secretLoaded' = g.loaded
              /\ last' = Observation("retrieve", g.threw, g.error, g.value,
                                     FALSE, FALSE, FALSE, {}, <<>>)
              /\ retrieved' = Min(retrieved + v.gets + (IF g.threw THEN 0 ELSE 1),
                                  MaxRetrieved)
              /\ scraper' = NewScraper
              /\ pc' = IF g.threw THEN "exited" ELSE "login"
              /\ exitCode' = IF g.threw THEN 1 ELSE exitCode
              /\ loginCall' = IF g.threw THEN loginCall
                              ELSE <<g.value[1]["username"], g.value[1]["password"],
                                     g.value[1]["email"]>>
  /\ UNCHANGED <<build, env, file, EXPECTED_ENV_HASH, everLoaded>>
  /\ UNCHANGED <<envLoaded, config, isInitialized, diag, connected, calls, emitted>>

\* process.exit: the 'exit' event.  Its only handler is the one of
\* dist/config.js lines 119-124, registered when DEBUG is 'true' and the
\* import of config.js came to its end.
ExitEvent(fault) ==
  /\ pc = "exited"
  /\ pc' = "terminated"
  /\ IF /\ build = "envonly"
        /\ env["DEBUG"] = "true"
        /\ ~(last.op = "load" /\ last.threw)
     THEN LET r == cleanupCredentials(secretBuffer, secretLoaded, fault)
          IN  /\ secretBuffer' = r.buf
              /\ secretLoaded' = r.loaded
              /\ last' = r.obs
     ELSE UNCHANGED <<secretBuffer, secretLoaded, last>>
  /\ UNCHANGED <<build, env, file, EXPECTED_ENV_HASH, everLoaded, retrieved>>
  /\ UNCHANGED <<envLoaded, config, scraper, isInitialized, diag, loginCall,
                 connected, exitCode, calls, emitted>>

StartNext ==
  \/ \E fault \in {"none", "malloc", "mlock"} : ImportConfig(fault)
  \/ \E fault \in {"none", "memzero", "munlock"} : RunServerStore(fault)
  \/ \E ok \in BOOLEAN : LoginReturn(ok)
  \/ \E ok \in BOOLEAN : Connect(ok)
  \/ \E ok \in BOOLEAN : Shutdown(ok)
  \/ \E fault \in {"none", "memzero", "munlock"} : ExitEvent(fault)

StartSpec == StartInit /\ [][StartNext]_vars

(***************************************************************************)
(* The redacting logger (part_000 lines 8-31, dist/config.js lines 4-27).  *)
(* A text is a string, read character by character.                        *)
(***************************************************************************)
\* The characters \s matches, of those the texts of the model use.
Whitespace == {" ", "\t", "\n"}
HexDigits == Range(Chars("0123456789abcdefABCDEF"))

\* The number of characters from position i on that are in the class: the
\* members of set when inside, every other character when not.
RunLength(s, i, set, inside) ==
  LET stops == {j \in i..Len(s) : (SubSeq(s, j, j) \in set) # inside}
                 \cup {Len(s) + 1}
  IN  (CHOOSE j \in stops : \A m \in stops : j <= m) - i

\* s.replace(/[class]{min,}/g, marker) from position i on, or, when exact,
\* s.replace(/[class]{min}/g, marker): the leftmost match first, as long as
\* the quantifier allows, the search going on after the match.  The
\* leftmost match starts at i or where a run of the class starts.
RECURSIVE ReplaceRuns(_, _, _, _, _, _, _)
ReplaceRuns(s, i, set, inside, min, exact, marker) ==
  LET starts == {p \in i..Len(s) :
                   /\ p = i \/ (SubSeq(s, p - 1, p - 1) \in set) # inside
                   /\ RunLength(s, p, set, inside) >= min}
  IN  IF i > Len(s) THEN ""
      ELSE IF starts = {} THEN SubSeq(s, i, Len(s))
      ELSE LET p == CHOOSE p \in starts : \A q \in starts : p <= q
               n == IF exact THEN min ELSE RunLength(s, p, set, inside)
           IN  (IF p > i THEN SubSeq(s, i, p - 1) ELSE "") \o marker
               \o ReplaceRuns(s, p + n, set, inside, min, exact, marker)

\* The text in lower case (the flag i of the third expression).
ToLower(s) ==
  LET upper == "ABCDEFGHIJKLMNOPQRSTUVWXYZ"
      lower == "abcdefghijklmnopqrstuvwxyz"
  IN  [m \in 1..Len(s) |->
         IF \E k \in 1..26 : SubSeq(upper, k, k) = SubSeq(s, m, m)
         THEN LET k == CHOOSE k \in 1..26 : SubSeq(upper, k, k) = SubSeq(s, m, m)
              IN  SubSeq(lower, k, k)
         ELSE SubSeq(s, m, m)]

\* The alternatives of the third expression, in its order.
SensitiveKeys == <<"private_key", "secret", "key", "token", "password">>

\* Whether /(K)=([^&\s]+)/i, K the k-th alternative, matches at position i.
KeyValueAt(s, i, k) ==
  LET n == Len(SensitiveKeys[k]) IN
  /\ i + n <= Len(s)
  /\ ToLower(SubSeq(s, i, i + n - 1)) = Chars(SensitiveKeys[k])
  /\ SubSeq(s, i + n, i + n) = "="
  /\ RunLength(s, i + n + 1, Whitespace \cup {"&"}, FALSE) >= 1

\* s.replace(/(private_key|secret|key|token|password)=([^&\s]+)/gi,
\*           '$1=[REDACTED]') from position i on.  A match ends its key at
\* an '=', so the search goes from one '=' to the next: j is the next '=';
\* when an alternative stands right before it (not reaching back before i)
\* and a value follows, the value is replaced and the search goes on after
\* it, else the search goes on after the '='.
RECURSIVE ReplaceKeyValues(_, _)
ReplaceKeyValues(s, i) ==
  IF i > Len(s) THEN ""
  ELSE LET j == i + RunLength(s, i, {"="}, FALSE)
           matched == \E k \in DOMAIN SensitiveKeys :
                        /\ j - Len(SensitiveKeys[k]) >= i
                        /\ KeyValueAt(s, j - Len(SensitiveKeys[k]), k)
       IN  IF j > Len(s) THEN SubSeq(s, i, Len(s))
           ELSE IF matched
           THEN SubSeq(s, i, j) \o "[REDACTED]"
                \o ReplaceKeyValues(s,
                     j + 1 + RunLength(s, j + 1, Whitespace \cup {"&"}, FALSE))
           ELSE SubSeq(s, i, j) \o ReplaceKeyValues(s, j + 1)

\* redactSensitive on a string: the three replacements, in their order.
redactSensitive(input) ==
  LET keys == ReplaceRuns(input, 1, HexDigits, TRUE, 64, TRUE, "[REDACTED_KEY]")
      long == ReplaceRuns(keys, 1, Whitespace \cup {"=", "&"}, FALSE, 32, FALSE,
                          "[REDACTED_LONG_VALUE]")
  IN  ReplaceKeyValues(long, 1)

\* args.map(redactSensitive).join(' ')
RECURSIVE JoinRedacted(_)
JoinRedacted(args) ==
  IF args = <<>> THEN ""
  ELSE IF Len(args) = 1 THEN redactSensitive(args[1])
  ELSE redactSensitive(args[1]) \o " " \o JoinRedacted(Tail(args))

\* logger.error / warn / info: the line written to process.stderr (the tag
\* without its colour codes).
logger(level, args) ==
  (CASE level = "error" -> "[ERROR]"
     [] level = "warn" -> "[WARN]"
     [] OTHER -> "[INFO]") \o " " \o JoinRedacted(args) \o "\n"

\* The texts handed to the logger: a key=value fragment after nothing, after
\* a word, or attached to a URL, with a short value, a base64 value with its
\* padding, a 40-character value or a 64-digit hexadecimal value.
LogTexts ==
  {prefix \o key \o "=" \o value \o suffix :
     prefix \in {"", "retry ", "https://api.twitter.com/oauth2/callback?"},
     key \in {"password", "Token", "KEY", "secret", "private_key", "user"},
     value \in {"abc123", "YWxpY2U6aHVudGVyMjpzZWNyZXQ=",
                "ABCDEFGHIJKLMNOPQRSTUVWXYZabcdefghij0123",
                "0123456789abcdef0123456789ABCDEF0123456789abcdef0123456789ABCDEF"},
     suffix \in {"", "&page=2", " done"}}

\* A call of the logger about to run: its level and arguments are chosen,
\* its line is not yet written.
EmitInit ==
  /\ build = "logger"
  /\ env = NoConfig
  /\ file = NoFile
  /\ EXPECTED_ENV_HASH = NoHash
  /\ secretBuffer = NullBuffer
  /\ secretLoaded = FALSE
  /\ last = Observation("start", FALSE, <<>>, <<>>, FALSE, FALSE, FALSE, {}, <<>>)
  /\ everLoaded = FALSE
  /\ retrieved = 0
  /\ TsIdle
  /\ pc = "none"
  /\ calls = NoCalls
  /\ \E level \in {"error", "warn", "info"}, t \in LogTexts :
       \E args \in {<<t>>, <<"Request failed:", t>>} :
         emitted = [level |-> level, args |-> args, line |-> ""]

\* The call runs: the line is written.
Emit ==
  /\ emitted.line = ""
  /\ emitted' = [emitted EXCEPT !.line = logger(emitted.level, emitted.args)]
  /\ UNCHANGED <<storeVars, tsVars, calls>>

EmitNext == Emit

EmitSpec == EmitInit /\ [][EmitNext]_vars

(***************************************************************************)
(* The logger on structured arguments (part_000 lines 8-31).  A value is a *)
(* record with its kind: a string or a number with its text, null,         *)
(* undefined, or an object (a mapping, a sequence or an error) that refers *)
(* to a node of the heap; a node is the list of its own enumerable fields, *)
(* each a pair of a name and a value.                                      *)
(***************************************************************************)
\* redactSensitive(input): a string goes through the three replacements; an
\* object becomes a new object where a field whose lower-cased name includes
\* 'key' or 'secret' holds '[REDACTED]' and every other field the result of
\* the call on its value; anything else is returned as it is.  path is the
\* set of the nodes the calls in progress are working on: a node met again
\* means calls nested without end, which ends in a RangeError (call stack
\* size exceeded).
\* redactSensitive comparing the names of the fields as they are written.
RECURSIVE redactValueCaseSensitive(_, _, _)
redactValueCaseSensitive(heap, input, path) ==
  LET Includes(name, word) ==
        \E i \in 1..(Len(name) - Len(word) + 1) :
          SubSeq(name, i, i + Len(word) - 1) = Chars(word)
      fields == heap[input.ref]
      out == [i \in DOMAIN fields |->
                IF Includes(Chars(fields[i][1]), "key")
                   \/ Includes(Chars(fields[i][1]), "secret")
                THEN [kind |-> "string", text |-> "[REDACTED]"]
                ELSE redactValueCaseSensitive(heap, fields[i][2], path \cup {input.ref})]
  IN  IF input.kind = "string"
      THEN [kind |-> "string", text |-> redactSensitive(input.text)]
      ELSE IF input.kind = "object"
      THEN IF input.ref \in path THEN [kind |-> "RangeError"]
           ELSE IF \E i \in DOMAIN out : out[i].kind = "RangeError"
           THEN [kind |-> "RangeError"]
           ELSE [kind |-> "sanitized",
                 fields |-> [i \in DOMAIN fields |-> <<fields[i][1], out[i]>>]]
      ELSE input

RECURSIVE redactValue(_, _, _)
redactValue(heap, input, path) ==
  LET Includes(name, word) ==
        \E i \in 1..(Len(name) - Len(word) + 1) :
          SubSeq(name, i, i + Len(word) - 1) = Chars(word)
      fields == heap[input.ref]
      out == [i \in DOMAIN fields |->
                IF Includes(ToLower(fields[i][1]), "key")
                   \/ Includes(ToLower(fields[i][1]), "secret")
                THEN [kind |-> "string", text |-> "[REDACTED]"]
                ELSE redactValue(heap, fields[i][2], path \cup {input.ref})]
  IN  IF input.kind = "string"
      THEN [kind |-> "string", text |-> redactSensitive(input.text)]
      ELSE IF input.kind = "object"
      THEN IF input.ref \in path THEN [kind |-> "RangeError"]
           ELSE IF \E i \in DOMAIN out : out[i].kind = "RangeError"
           THEN [kind |-> "RangeError"]
           ELSE [kind |-> "sanitized",
                 fields |-> [i \in DOMAIN fields |-> <<fields[i][1], out[i]>>]]
      ELSE input

\* logger.error / warn / info on structured arguments:
\* process.stderr.write(`${tag} ${args.map(redactSensitive).join(' ')}\n`).
\* join takes null and undefined as the empty text and converts every other
\* element to a string: a new object gives '[object Object]', unless it has
\* a field of its own named toString, which holds a text or an object and
\* cannot be called (TypeError: cannot convert object to primitive value).
\* The result tells whether the call raised, with what, the values after
\* args.map(redactSensitive) and the line written to the diagnostic stream.
loggerStructured(level, heap, args) ==
  LET mapped == [i \in DOMAIN args |-> redactValue(heap, args[i], {})]
      Raises(v) ==
        IF v.kind = "RangeError" THEN "RangeError"
        ELSE IF v.kind = "sanitized"
                /\ \E i \in DOMAIN v.fields : v.fields[i][1] = "toString"
        THEN "TypeError"
        ELSE ""
      Text(v) ==
        CASE v.kind \in {"string", "number"} -> v.text
          [] v.kind \in {"null", "undefined"} -> ""
          [] OTHER -> "[object Object]"
      Join[i \in 0..Len(args)] ==
        IF i = 0 THEN ""
        ELSE IF i = 1 THEN Text(mapped[1])
        ELSE Join[i - 1] \o " " \o Text(mapped[i])
      tag == CASE level = "error" -> "[ERROR]"
               [] level = "warn" -> "[WARN]"
               [] OTHER -> "[INFO]"
      raised == {Raises(mapped[i]) : i \in DOMAIN args} \ {""}
  IN  IF raised # {}
      THEN [outcome |-> IF "RangeError" \in raised THEN "RangeError"
                        ELSE "TypeError",
            sanitized |-> <<>>, stderr |-> <<>>, stdout |-> <<>>]
      ELSE [outcome |-> "returned", sanitized |-> mapped,
            stderr |-> <<tag \o " " \o Join[Len(args)] \o "\n">>,
            stdout |-> <<>>]

\* A call of the logger on structured arguments about to run.  The heap has
\* a request (a mapping with two fields: its name stands for a credential
\* or not, its value is a text, null, the nested mapping, the request
\* itself, a sequence or an error), a nested mapping (whose second field
\* may refer back to the request), a sequence of two texts and an error
\* (no enumerable field of its own).  No text of a field stands in another
\* argument or in the tag of the line.
StructInit ==
  LET Str(t) == [kind |-> "string", text |-> t, ref |-> ""]
      Obj(n) == [kind |-> "object", text |-> "", ref |-> n]
      Null == [kind |-> "null", text |-> "", ref |-> ""]
      Names == {"apiKey", "client_SECRET", "KEYS", "user", "toString", "auth"}
      Values == {Str("hunter2"), Str("token=abc123"), Null,
                 Obj("nested"), Obj("request"), Obj("list"), Obj("error")}
  IN
  /\ build = "logger"
  /\ env = NoConfig
  /\ file = NoFile
  /\ EXPECTED_ENV_HASH = NoHash
  /\ secretBuffer = NullBuffer
  /\ secretLoaded = FALSE
  /\ last = Observation("start", FALSE, <<>>, <<>>, FALSE, FALSE, FALSE, {}, <<>>)
  /\ everLoaded = FALSE
  /\ retrieved = 0
  /\ TsIdle
  /\ pc = "none"
  /\ calls = NoCalls
  /\ \E level \in {"error", "warn", "info"}, name \in Names, value \in Values,
        inner \in {"Secret_Token", "owner"}, back \in {Str("s3cr3t"), Obj("request")} :
       \E args \in {<<Obj("request")>>,
                    <<Str("Request failed:"), Obj("request")>>,
                    <<Obj("error"), Obj("nested"),
                      [kind |-> "number", text |-> "42", ref |-> ""],
                      [kind |-> "undefined", text |-> "", ref |-> ""]>>} :
         emitted = [level |-> level,
                    heap |-> [n \in {"request", "nested", "list", "error"} |->
                                CASE n = "request" ->
                                       <<<<"id", Str("r-17")>>, <<name, value>>>>
                                  [] n = "nested" ->
                                       <<<<inner, Str("s3cr3t")>>, <<"parent", back>>>>
                                  [] n = "list" ->
                                       <<<<"0", Str("9f8e7d")>>, <<"1", Str("password=pw")>>>>
                                  [] OTHER -> <<>>],
                    args |-> args,
                    result |-> [outcome |-> "pending", sanitized |-> <<>>,
                                stderr |-> <<>>, stdout |-> <<>>]]

\* The call runs: it returns or raises.
EmitStructured ==
  /\ emitted.result.outcome = "pending"
  /\ emitted' = [emitted EXCEPT
                   !.result = loggerStructured(emitted.level, emitted.heap, emitted.args)]
  /\ UNCHANGED <<storeVars, tsVars, calls>>

StructSpec == StructInit /\ [][EmitStructured]_vars

(***************************************************************************)
(* The tools: the list-tools and call-tool handlers (index.ts, found in    *)
(* config.ts from line 127 on), the tool definitions (tools/index.ts) and  *)
(* the client wrapper TwitterIntegration (twitter-integration.ts).         *)
(***************************************************************************)
\* The names of twitterTools, which the list-tools handler returns.
twitterTools ==
  {"profileByUsername", "myProfile", "getUserBio", "getUserId", "isFollowing",
   "getTweet", "getUserTweets", "sendTweet", "likeTweet", "retweet",
   "getTweetText", "getConversationThread", "uploadMedia", "sendTweetWithMedia",
   "searchTweets", "searchProfiles", "getTwitterFollowers", "getTwitterFollowing",
   "followUser"}

\* The branch of the call-tool handler for a tool name: the method of the
\* wrapper it calls, the operations of the underlying client the method
\* issues, in their order, what the method does when one of them raises
\* (it returns null, an empty list or false, or raises in turn), how it
\* limits a list to count, and whether the handler answers a null or empty
\* result with an error.  A name without a branch gets 'Unknown tool'.
Dispatch(toolName) ==
  LET Branch(method, ops, onError, limit, emptyIsError) ==
        [method |-> method, ops |-> ops, onError |-> onError, limit |-> limit,
         emptyIsError |-> emptyIsError]
  IN  CASE toolName = "profileByUsername" ->
             Branch("getProfileByUsername", <<"getProfile">>, "null", "none", TRUE)
        [] toolName = "myProfile" ->
             Branch("getMyProfile", <<"me">>, "null", "none", TRUE)
        [] toolName = "getUserBio" ->
             Branch("getUserBio", <<"getProfile">>, "null", "none", TRUE)
        [] toolName = "getUserId" ->
             Branch("getUserIdByUsername", <<"getUserIdByScreenName">>, "null",
                    "none", TRUE)
        [] toolName = "isFollowing" ->
             Branch("isFollowing", <<"getProfile", "me", "getFollowing">>, "false",
                    "none", FALSE)
        [] toolName = "getTweet" ->
             Branch("getTweet", <<"getTweet">>, "null", "none", TRUE)
        [] toolName = "getUserTweets" ->
             Branch("getUserTweets", <<"getTweets">>, "empty", "break", FALSE)
        [] toolName = "getListTweets" ->
             Branch("getListTweets", <<"fetchListTweets">>, "raise", "slice", FALSE)
        [] toolName = "getTweetText" ->
             Branch("getTweetText", <<"getTweet">>, "null", "none", TRUE)
        [] toolName = "getConversationThread" ->
             Branch("getConversationThread", <<"getTweet">>, "empty", "none", TRUE)
        [] toolName = "sendTweet" ->
             Branch("sendTweet", <<"sendTweet">>, "raise", "none", FALSE)
        [] toolName = "likeTweet" ->
             Branch("likeTweet", <<"likeTweet">>, "raise", "none", FALSE)
        [] toolName = "retweet" ->
             Branch("retweet", <<"retweet">>, "raise", "none", FALSE)
        [] toolName = "searchTweets" ->
             Branch("searchTweets", <<"searchTweets">>, "empty", "break", FALSE)
        [] toolName = "searchProfiles" ->
             Branch("searchProfiles", <<"searchProfiles">>, "empty", "break", FALSE)
        [] toolName = "getTwitterFollowers" ->
             Branch("getFollowers", <<"getProfile", "getFollowers">>, "empty",
                    "break", FALSE)
        [] toolName = "getTwitterFollowing" ->
             Branch("getFollowing", <<"getProfile", "getFollowing">>, "empty",
                    "break", FALSE)
        [] toolName = "followUser" ->
             Branch("followUser", <<"followUser">>, "raise", "none", FALSE)
        [] toolName = "uploadMedia" ->
             Branch("uploadMedia", <<>>, "raise", "none", FALSE)
        [] toolName = "sendTweetWithMedia" ->
             Branch("sendTweetWithMedia", <<"sendTweet">>, "raise", "none", FALSE)
        [] OTHER -> Branch("Unknown tool", <<>>, "none", "none", FALSE)

\* TwitterIntegration.initialize as one call, scraper.login settling with
\* ok: the client and the flag it leaves, whether it raised, and the
\* arguments of the login attempts it made.
initialize(c, s, initialized, ok) ==
  IF initialized
  THEN [scraper |-> s, isInitialized |-> TRUE, threw |-> FALSE, logins |-> <<>>]
  ELSE IF ~hasApiCredentials(c) /\ ~Truthy(c["TWITTER_USERNAME"])
  THEN [scraper |-> NewScraper, isInitialized |-> FALSE, threw |-> TRUE,
        logins |-> <<>>]
  ELSE [scraper |-> [ref |-> TRUE, loggedIn |-> ok], isInitialized |-> ok,
        threw |-> ~ok, logins |-> <<LoginArguments(c)>>]

\* ensureAuthenticated (twitter-integration.ts lines 133-155).  world tells
\* whether scraper.isLoggedIn() answers or raises and how a login settles;
\* when it answers, it tells whether the session of the client is alive.
\* found is what the call found: no client ("none"), a session that is
\* "alive" or "expired", or nothing when isLoggedIn raised ("unknown");
\* result is what the call returns ("true", "false") or "raised".
ensureAuthenticated(c, s, initialized, world) ==
  LET found == IF ~s.ref THEN "none"
               ELSE IF world.check = "raises" THEN "unknown"
               ELSE IF ~s.loggedIn THEN "expired"
               ELSE "alive"
      \* await this.initialize(); return this.isInitialized: outside the try
      \* when there was no client, inside it otherwise
      After(r) ==
        [scraper |-> r.scraper, isInitialized |-> r.isInitialized,
         found |-> found,
         result |-> IF r.threw THEN (IF found = "none" THEN "raised" ELSE "false")
                    ELSE IF r.isInitialized THEN "true" ELSE "false",
         logins |-> r.logins]
  IN  IF found \in {"none", "expired"}
      THEN After(initialize(c, s, initialized, world.login))
      ELSE [scraper |-> s, isInitialized |-> initialized, found |-> found,
            result |-> IF found = "alive" /\ initialized THEN "true" ELSE "false",
            logins |-> <<>>]

\* 512 * 1024 * 1024 (twitter-integration.ts lines 738 and 816).
MaxVideoBytes == 536870912

\* The checks without the one on the number of images.
mediaErrorNoImageLimit(media, counted) ==
  LET imageItems == SelectSeq(media, LAMBDA item :
                      item.mediaType \in {"image/jpeg", "image/png", "image/gif"})
      videoItems == SelectSeq(media, LAMBDA item : item.mediaType = "video/mp4")
  IN  IF counted /\ Len(imageItems) > 0 /\ Len(videoItems) > 0
      THEN "Cannot mix images and videos in the same tweet"
      ELSE IF counted /\ Len(videoItems) > 1
      THEN "Maximum of 1 video per tweet allowed"
      ELSE IF \E i \in DOMAIN media :
                media[i].mediaType
                  \notin {"image/jpeg", "image/png", "image/gif", "video/mp4"}
      THEN "Unsupported media type"
      ELSE IF \E i \in DOMAIN media :
                media[i].mediaType = "video/mp4" /\ media[i].size > MaxVideoBytes
      THEN "Video file size exceeds maximum limit of 512MB"
      ELSE ""

\* The checks of sendTweetWithMedia on its media list (lines 782-818), and,
\* when not counted, those of uploadMedia on its one item (lines 718-740):
\* the message of the error raised, or "".  An item is its mediaType and
\* the length of the buffer decoded from its data.
mediaError(media, counted) ==
  LET imageItems == SelectSeq(media, LAMBDA item :
                      item.mediaType \in {"image/jpeg", "image/png", "image/gif"})
      videoItems == SelectSeq(media, LAMBDA item : item.mediaType = "video/mp4")
  IN  IF counted /\ Len(imageItems) > 0 /\ Len(videoItems) > 0
      THEN "Cannot mix images and videos in the same tweet"
      ELSE IF counted /\ Len(imageItems) > 4
      THEN "Maximum of 4 images per tweet allowed"
      ELSE IF counted /\ Len(videoItems) > 1
      THEN "Maximum of 1 video per tweet allowed"
      ELSE IF \E i \in DOMAIN media :
                media[i].mediaType
                  \notin {"image/jpeg", "image/png", "image/gif", "video/mp4"}
      THEN "Unsupported media type"
      ELSE IF \E i \in DOMAIN media :
                media[i].mediaType = "video/mp4" /\ media[i].size > MaxVideoBytes
      THEN "Video file size exceeds maximum limit of 512MB"
      ELSE ""

\* A catch of the call-tool handler (the outer one, and the ones around
\* uploadMedia and sendTweetWithMedia): the handler returns a response with
\* isError true and the message of the error.
caughtRethrown(message) ==
  [outcome |-> "raised", isError |-> FALSE, error |-> "", items |-> 0]

caught(message) ==
  [outcome |-> "returned", isError |-> TRUE, error |-> message, items |-> 0]

\* The call-tool handler (config.ts lines 200-725) with the method of the
\* wrapper it calls, as one call.  request is the name of the tool with its
\* arguments: count (<<>> when omitted), check, media; arguments tells
\* whether the arguments are "given", are a record without fields ("empty")
\* or are "missing" altogether.  world tells how the
\* awaited calls on the underlying client settle: isLoggedIn and login for
\* each ensureAuthenticated, the operations (op: "ok", "raises", or
\* "nothing" when the first one yields null) and the number of items the
\* underlying sequence has.  The result tells the state of the wrapper, the
\* response, what each ensureAuthenticated found and returned, the login
\* attempts, whether an error was thrown in the handler or up to it (thrown),
\* whether an operation of the underlying client raised (failed),
\* the operations issued on the underlying client (each with the session
\* state of the client it was issued on and the media passed) and the
\* number of items read from the underlying sequence.
callTool(request, c, s, initialized, world) ==
  LET withMedia == request.name = "sendTweetWithMedia"
      \* args.count || 20
      count == IF request.count = <<>> \/ request.count[1] = 0 THEN 20
               ELSE request.count[1]
      n == IF world.op = "ok" THEN world.available ELSE 0
      \* for await: push, then break when length >= count
      collected == IF n = 0 THEN 0 ELSE IF count <= 1 THEN 1 ELSE Min(n, count)
      \* finalTweets.length > count ? finalTweets.slice(0, count) : finalTweets
      sliced == IF n > count
                THEN IF count >= 0 THEN count
                     ELSE IF n + count > 0 THEN n + count ELSE 0
                ELSE n
      \* The response and the record of the call: ensured tells how many
      \* ensureAuthenticated ran (e1, then e2), ops the operations issued.
      Answer(d, error, thrown, ensured, ops, e1, e2) ==
        LET st == IF ensured = 0
                  THEN [scraper |-> s, isInitialized |-> initialized]
                  ELSE IF ensured = 1 THEN e1 ELSE e2
        IN  [scraper |-> st.scraper, isInitialized |-> st.isInitialized,
             response |->
               IF thrown THEN caught(error)
               ELSE [outcome |-> "returned", isError |-> error # "",
                     error |-> error,
                     items |-> IF error # "" THEN 0
                               ELSE CASE d.limit = "break" -> collected
                                      [] d.limit = "slice" -> sliced
                                      [] OTHER -> IF world.op = "ok" /\ d.ops # <<>>
                                                  THEN 1 ELSE 0],
             thrown |-> thrown,
             failed |-> ops # <<>> /\ world.op = "raises",
             ensured |-> SubSeq(<<e1.result, e2.result>>, 1, ensured),
             found |-> SubSeq(<<e1.found, e2.found>>, 1, ensured),
             logins |-> IF ensured = 0 THEN <<>>
                        ELSE IF ensured = 1 THEN e1.logins
                        ELSE e1.logins \o e2.logins,
             issued |-> [i \in DOMAIN ops |->
                           [op |-> ops[i], loggedIn |-> st.scraper.loggedIn,
                            media |-> IF withMedia THEN request.media ELSE <<>>]],
             read |-> IF ops = <<>> \/ d.limit = "none" THEN 0
                      ELSE IF d.limit = "break" THEN collected ELSE n]
      \* The method after its ensureAuthenticated, which did not raise;
      \* sendTweetWithMedia checks its list and calls this.sendTweet, which
      \* ensures again (e2).
      Method(d, e1, e2) ==
        LET failed == d.ops # <<>> /\ world.op = "raises"
            nothing == d.ops # <<>> /\ world.op = "nothing"
            ensured == IF withMedia THEN 2 ELSE 1
            ops == IF world.op = "ok" \/ d.ops = <<>> THEN d.ops ELSE <<d.ops[1]>>
        IN  Answer(d,
                   IF failed /\ d.onError = "raise" THEN "Error processing request"
                   ELSE IF nothing /\ d.limit = "slice"
                   THEN "Unexpected response format or empty result"
                   ELSE IF (failed \/ nothing) /\ d.emptyIsError THEN "not found"
                   ELSE "",
                   \/ failed /\ d.onError = "raise"
                   \/ nothing /\ d.limit = "slice",
                   ensured, ops, e1, e2)
      Handler(d, e1, invalid) ==
        IF d.method = "Unknown tool"
        THEN Answer(d, "Unknown tool", FALSE, 0, <<>>, e1, e1)
        \* args.username and the like, args being undefined; text.substring,
        \* text being undefined
        ELSE IF \/ request.arguments = "missing"
                \/ request.arguments = "empty" /\ request.name = "sendTweet"
        THEN Answer(d, "Cannot read properties of undefined", TRUE, 0, <<>>, e1, e1)
        ELSE IF request.name = "myProfile" /\ ~request.check
        THEN Answer(d, "Parameter 'check' must be true", FALSE, 0, <<>>, e1, e1)
        ELSE IF withMedia /\ request.media = <<>>
        THEN Answer(d, "Media array is required and must not be empty", FALSE, 0,
                    <<>>, e1, e1)
        ELSE IF e1.result = "raised"
        THEN Answer(d, "Twitter client initialization failed", TRUE, 1, <<>>, e1, e1)
        ELSE IF invalid # ""
        THEN Answer(d, invalid, TRUE, 1, <<>>, e1, e1)
        ELSE Method(d, e1,
               IF withMedia
               THEN ensureAuthenticated(c, e1.scraper, e1.isInitialized,
                      [check |-> world.check2, login |-> world.login2])
               ELSE e1)
  IN  Handler(Dispatch(request.name),
              ensureAuthenticated(c, s, initialized,
                                  [check |-> world.check, login |-> world.login]),
              IF request.name \in {"uploadMedia", "sendTweetWithMedia"}
              THEN mediaError(request.media, withMedia) ELSE "")

\* The server with its tools, as createTwitterServer sets it up (config.ts
\* lines 733-775): the configuration is read, the handlers are registered,
\* the wrapper has no client yet.  A caller is idle: it has no request.
ToolInit ==
  /\ build = "ts"
  /\ env \in {EnvOf("alice", "hunter2", "a@x.io", {}),
              EnvOf(Undefined, "hunter2", "a@x.io", {"PROXY_URL"})}
  /\ file = NoFile
  /\ EXPECTED_ENV_HASH = NoHash
  /\ secretBuffer = NullBuffer
  /\ secretLoaded = FALSE
  /\ last = Observation("start", FALSE, <<>>, <<>>, FALSE, FALSE, FALSE, {}, <<>>)
  /\ everLoaded = FALSE
  /\ retrieved = 0
  /\ envLoaded = TRUE
  /\ config = env
  /\ scraper = NoScraper
  /\ isInitialized = FALSE
  /\ diag = {}
  /\ loginCall = <<>>
  /\ connected = TRUE
  /\ exitCode = -1
  /\ pc = "serving"
  /\ calls = [c \in Callers |-> [pc |-> "idle"]]
  /\ emitted = NoLine

\* A call-tool request of caller c arrives.  The tools that take a count
\* get none, 0, a negative one, one below and one above what the underlying
\* sequence has; the media tools get lists of up to five items, of the
\* supported types and others, with videos around the size limit.
Request(c, name) ==
  LET Item(type, size) == [mediaType |-> type, size |-> size]
      jpeg == Item("image/jpeg", 2048)
      png == Item("image/png", MaxVideoBytes + 1)
      mp4 == Item("video/mp4", 4096)
      MediaLists ==
        {<<>>, <<jpeg>>, <<jpeg, png, jpeg, png>>, <<jpeg, jpeg, png, jpeg, jpeg>>,
         <<mp4>>, <<mp4, mp4>>, <<jpeg, mp4>>, <<Item("image/webp", 2048)>>,
         <<jpeg, Item("video/quicktime", 4096)>>,
         <<Item("video/mp4", MaxVideoBytes - 1)>>,
         <<Item("video/mp4", MaxVideoBytes)>>,
         <<Item("video/mp4", MaxVideoBytes + 1)>>}
  IN
  /\ pc = "serving"
  /\ calls[c].pc = "idle"
  /\ \/ \E count \in IF Dispatch(name).limit = "none" THEN {<<>>}
                     ELSE {<<>>, <<0>>, <<-1>>, <<2>>, <<25>>},
           check \in IF name = "myProfile" THEN BOOLEAN ELSE {TRUE},
           media \in IF name = "sendTweetWithMedia" THEN MediaLists
                     ELSE IF name = "uploadMedia"
                     THEN {m \in MediaLists : Len(m) = 1}
                     ELSE {<<>>} :
          calls' = [calls EXCEPT ![c] =
                      [pc |-> "pending",
                       request |-> [name |-> name, arguments |-> "given",
                                    count |-> count, check |-> check,
                                    media |-> media]]]
     \* no argument is given: every one reads as undefined
     \/ \E arguments \in {"empty", "missing"} :
          calls' = [calls EXCEPT ![c] =
                      [pc |-> "pending",
                       request |-> [name |-> name, arguments |-> arguments,
                                    count |-> <<>>, check |-> FALSE,
                                    media |-> IF name = "uploadMedia"
                                              THEN <<Item("undefined", 0)>>
                                              ELSE <<>>]]]
  /\ UNCHANGED <<storeVars, tsVars, emitted>>

\* The handler runs for the request of caller c, from its first statement
\* to its response, the awaited calls settling in one of the ways they can
\* (a second ensureAuthenticated runs only under sendTweetWithMedia, a
\* sequence is read only by the tools that take a count).  The lines the
\* handler writes are not kept.
Respond(c) ==
  /\ pc = "serving"
  /\ calls[c].pc = "pending"
  /\ \E check \in {"answers", "raises"}, login \in BOOLEAN,
        op \in {"ok", "raises", "nothing"} :
       \E check2 \in IF calls[c].request.name = "sendTweetWithMedia"
                     THEN {"answers", "raises"} ELSE {check},
          login2 \in IF calls[c].request.name = "sendTweetWithMedia"
                     THEN BOOLEAN ELSE {login},
          available \in IF Dispatch(calls[c].request.name).limit # "none"
                        THEN {0, 1, 3, 21, 30} ELSE {0} :
         LET r == callTool(calls[c].request, config, scraper, isInitialized,
                           [check |-> check, login |-> login, check2 |-> check2,
                            login2 |-> login2, op |-> op, available |-> available])
         IN  /\ scraper' = r.scraper
             /\ isInitialized' = r.isInitialized
             /\ loginCall' = IF r.logins = <<>> THEN loginCall
                             ELSE r.logins[Len(r.logins)]
             /\ calls' = [calls EXCEPT ![c] =
                            [pc |-> "done", request |-> calls[c].request,
                             before |-> [scraper |-> scraper,
                                         isInitialized |-> isInitialized],
                             result |-> r]]
  /\ UNCHANGED <<env, envLoaded, config, diag, connected, exitCode, pc>>
  /\ UNCHANGED <<build, file, EXPECTED_ENV_HASH, secretBuffer, secretLoaded, last,
                 everLoaded, retrieved, emitted>>

\* The response of caller c's request is sent: the caller is idle again.
Deliver(c) ==
  /\ calls[c].pc = "done"
  /\ calls' = [calls EXCEPT ![c] = [pc |-> "idle"]]
  /\ UNCHANGED <<storeVars, tsVars, emitted>>

\* The session of the logged-in client ends on the side of Twitter: from
\* now on scraper.isLoggedIn() answers false.
SessionExpires ==
  /\ pc = "serving"
  /\ scraper.loggedIn
  /\ scraper' = [scraper EXCEPT !.loggedIn = FALSE]
  /\ UNCHANGED <<env, envLoaded, config, isInitialized, diag, loginCall, connected,
                 exitCode, pc>>
  /\ TsStoreUnchanged

ToolNext ==
  \/ \E name \in twitterTools \cup {"getListTweets", "getFollowers", "getFollowing",
                                    "deleteTweet"} : Request("A", name)
  \/ Respond("A")
  \/ Deliver("A")
  \/ SessionExpires
  \/ \E ok \in BOOLEAN : Shutdown(ok)

ToolSpec == ToolInit /\ [][ToolNext]_vars

(***************************************************************************)
(* Concurrent calls of the wrapper: initialize and ensureAuthenticated     *)
(* (twitter-integration.ts lines 42-155) step by step, every await being a *)
(* point where another caller may run.  The instances of Scraper are       *)
(* numbered in the order of their creation: scraper tells the number of    *)
(* the instance the wrapper references (0 for null), how many were         *)
(* created, and on which of them a login has succeeded.                    *)
(***************************************************************************)
MaxInstances == 3

\* Caller c is at rest: it has made no call, or its call has returned.
AtRest(c) == calls[c].pc \in {"idle", "done"}

\* initialize() entered by caller c, up to its return, its throw or its
\* await of scraper.login.  kind is the call c made, inTry tells whether
\* initialize was called inside the try of ensureAuthenticated.
initializeEnters(c, kind, inTry) ==
  LET created == [scraper EXCEPT !.ref = TRUE, !.loggedIn = FALSE,
                                 !.instance = scraper.created + 1,
                                 !.created = scraper.created + 1]
      Done(result) == [pc |-> "done", kind |-> kind, inTry |-> inTry,
                       instance |-> 0, result |-> result]
  IN  IF isInitialized
      THEN /\ calls' = [calls EXCEPT ![c] =
                          Done(IF kind = "initialize" THEN "returned" ELSE "true")]
           /\ UNCHANGED <<scraper, loginCall>>
      ELSE /\ scraper.created < MaxInstances
           /\ scraper' = created
           /\ IF ~hasApiCredentials(config) /\ ~Truthy(config["TWITTER_USERNAME"])
              THEN /\ calls' = [calls EXCEPT ![c] =
                                  Done(IF inTry THEN "false" ELSE "raised")]
                   /\ UNCHANGED loginCall
              ELSE /\ calls' = [calls EXCEPT ![c] =
                                  [pc |-> "login", kind |-> kind, inTry |-> inTry,
                                   instance |-> created.instance, result |-> ""]]
                   /\ loginCall' = LoginArguments(config)

ConcInit ==
  /\ build = "ts"
  /\ env \in {EnvOf("alice", "hunter2", "a@x.io", {}),
              EnvOf(Undefined, "hunter2", "a@x.io", {"PROXY_URL"})}
  /\ file = NoFile
  /\ EXPECTED_ENV_HASH = NoHash
  /\ secretBuffer = NullBuffer
  /\ secretLoaded = FALSE
  /\ last = Observation("start", FALSE, <<>>, <<>>, FALSE, FALSE, FALSE, {}, <<>>)
  /\ everLoaded = FALSE
  /\ retrieved = 0
  /\ envLoaded = TRUE
  /\ config = env
  /\ scraper = [ref |-> FALSE, loggedIn |-> FALSE, instance |-> 0, created |-> 0,
                succeeded |-> {}]
  /\ isInitialized = FALSE
  /\ diag = {}
  /\ loginCall = <<>>
  /\ connected = TRUE
  /\ exitCode = -1
  /\ pc = "serving"
  /\ calls = [c \in Callers |->
                [pc |-> "idle", kind |-> "", inTry |-> FALSE, instance |-> 0,
                 result |-> ""]]
  /\ emitted = NoLine

\* Caller c calls initialize().
Initialize(c) ==
  /\ AtRest(c)
  /\ initializeEnters(c, "initialize", FALSE)
  /\ UNCHANGED <<env, envLoaded, config, isInitialized, diag, connected, exitCode, pc>>
  /\ UNCHANGED <<storeVars, emitted>>

\* A method of the wrapper, called for caller c, calls ensureAuthenticated():
\* without a client it calls initialize(), with one it awaits the
\* isLoggedIn() of that client.
EnsureAuthenticated(c) ==
  /\ AtRest(c)
  /\ IF ~scraper.ref
     THEN initializeEnters(c, "ensureAuthenticated", FALSE)
     ELSE /\ calls' = [calls EXCEPT ![c] =
                         [pc |-> "check", kind |-> "ensureAuthenticated",
                          inTry |-> TRUE, instance |-> scraper.instance,
                          result |-> ""]]
          /\ UNCHANGED <<scraper, loginCall>>
  /\ UNCHANGED <<env, envLoaded, config, isInitialized, diag, connected, exitCode, pc>>
  /\ UNCHANGED <<storeVars, emitted>>

\* The isLoggedIn() that caller c awaits settles: it raises, or it tells
\* whether a login has succeeded on the instance it was called on.
IsLoggedInSettles(c) ==
  /\ calls[c].pc = "check"
  /\ \E raises \in BOOLEAN :
       IF raises \/ calls[c].instance \in scraper.succeeded
       THEN /\ calls' = [calls EXCEPT ![c] =
                           [pc |-> "done", kind |-> "ensureAuthenticated",
                            inTry |-> TRUE, instance |-> 0,
                            result |-> IF ~raises /\ isInitialized THEN "true"
                                       ELSE "false"]]
            /\ UNCHANGED <<scraper, loginCall>>
       ELSE initializeEnters(c, "ensureAuthenticated", TRUE)
  /\ UNCHANGED <<env, envLoaded, config, isInitialized, diag, connected, exitCode, pc>>
  /\ UNCHANGED <<storeVars, emitted>>

\* The scraper.login that caller c awaits settles, on the instance it was
\* called on: initialize sets isInitialized, or throws.
LoginSettles(c) ==
  /\ calls[c].pc = "login"
  /\ \E ok \in BOOLEAN :
       /\ scraper' = IF ok
                     THEN [scraper EXCEPT
                             !.succeeded = @ \cup {calls[c].instance},
                             !.loggedIn = @ \/ scraper.instance = calls[c].instance]
                     ELSE scraper
       /\ isInitialized' = (ok \/ isInitialized)
       /\ calls' = [calls EXCEPT ![c] =
                      [pc |-> "done", kind |-> calls[c].kind,
                       inTry |-> calls[c].inTry, instance |-> 0,
                       result |-> IF ~ok THEN (IF calls[c].inTry THEN "false"
                                               ELSE "raised")
                                  ELSE IF calls[c].kind = "initialize"
                                  THEN "returned" ELSE "true"]]
  /\ UNCHANGED <<env, envLoaded, config, diag, loginCall, connected, exitCode, pc>>
  /\ UNCHANGED <<storeVars, emitted>>

ConcNext ==
  \/ \E c \in Callers : Initialize(c)
  \/ \E c \in Callers : EnsureAuthenticated(c)
  \/ \E c \in Callers : IsLoggedInSettles(c)
  \/ \E c \in Callers : LoginSettles(c)

ConcSpec == ConcInit /\ [][ConcNext]_vars

(***************************************************************************)
(* Properties of the store.                                                *)
(***************************************************************************)

\* The file holds the complete mandatory set, as loadSecrets reads it.
FileComplete3 == file.exists /\ HasMandatory(ParseEnvFile(file.lines))
\* A load that would fall back to the secret file.
FallsBackToFile == build = "fallback" /\ ~secretLoaded /\ ~HasMandatory(env)
Resident == secretLoaded /\ secretBuffer.ref

\* C1: single consumption.  Counting every call of getCredentials (a
\* caller's, or the one validateEnv makes): between two successful loads at
\* most one call returns; the first call on a loaded store returns a bundle;
\* once a call has returned, every further call before the next successful
\* load raises the credential-unavailable error and returns no bundle.
C1_SingleConsumption ==
  [][/\ retrieved' <= 1
     /\ (last'.op = "retrieve" /\ secretLoaded /\ retrieved = 0)
          => (~last'.threw /\ Len(last'.value) = 1 /\ retrieved' = 1)
     /\ (last'.op = "retrieve" /\ retrieved >= 1)
          => (/\ last'.threw
              /\ last'.error = <<ErrUnavailable>>
              /\ last'.value = <<>>
              /\ retrieved' = retrieved)]_vars

\* A second retrieve has just failed after one that succeeded.
C1_Witness ==
  /\ last.op = "retrieve"
  /\ last.threw
  /\ last.error = <<ErrUnavailable>>
  /\ retrieved = 1
  /\ everLoaded

\* C2: validate() is read-only: called with a bundle resident, it leaves
\* secretLoaded and the protected region as they were.
C2_ValidateReadOnly ==
  [][(last'.op = "validate" /\ Resident)
       => (secretBuffer' = secretBuffer /\ secretLoaded' = secretLoaded)]_vars

\* C3: validate() raises exactly when no bundle is resident, whichever
\* optional names the environment lacks.
C3_ValidateFailsIffEmpty ==
  [][last'.op = "validate" => (last'.threw <=> ~Resident)]_vars

\* C4: after a successful load no TWITTER_* name of the process environment
\* reads back as anything but the redaction marker.
C4_EnvScrubbed ==
  everLoaded => \A v \in TwitterVars : Truthy(env[v]) => env[v] = REDACTED

\* C6: priority order.  A load on an empty store whose environment holds the
\* complete mandatory set stores the bundle built from the environment
\* values, optional fields included, and does not read the file.
C6_EnvFirst ==
  [][(last'.op = "load" /\ ~secretLoaded /\ HasMandatory(env))
       => (/\ last'.stored
           /\ ~last'.fileRead
           /\ secretLoaded'
           /\ secretBuffer'.ref
           /\ secretBuffer'.bytes = JSONstringify(BuildCredentials(env)))]_vars

\* The environment's bundle is resident although the file holds a complete,
\* different set.
C6_Witness ==
  /\ last.op = "load"
  /\ last.stored
  /\ FileComplete3
  /\ Resident
  /\ JSONparse(secretBuffer.bytes)["username"] = "alice"
  /\ JSONparse(secretBuffer.bytes)["password"] = "hunter2"

\* C8: integrity check.  A load that falls back to a readable file whose
\* digest differs from the configured expected hash raises the integrity
\* error (not the missing-field error) and stores nothing.
C8_IntegrityCheck ==
  [][(/\ last'.op = "load"
      /\ FallsBackToFile
      /\ file.exists
      /\ EXPECTED_ENV_HASH # NoHash
      /\ Sha256Hex(file.lines) # EXPECTED_ENV_HASH[1])
       => (/\ last'.threw
           /\ last'.error = <<ErrCannotProceed, ErrIntegrity>>
           /\ last'.error # <<ErrCannotProceed, ErrRequiredInFile>>
           /\ ~last'.stored
           /\ ~secretLoaded'
           /\ ~secretBuffer'.ref)]_vars

\* The integrity error was raised for a file that holds every mandatory field.
C8_Witness ==
  /\ last.op = "load"
  /\ last.error = <<ErrCannotProceed, ErrIntegrity>>
  /\ FileComplete3
  /\ ~Resident

\* C9: idempotent load.  A load on a loaded store returns without reading
\* the environment or the file and without writing any environment value;
\* the region and the flag stay as they were.
C9_IdempotentLoad ==
  [][(last'.op = "load" /\ secretLoaded)
       => (/\ ~last'.threw
           /\ ~last'.envRead
           /\ ~last'.fileRead
           /\ last'.envWritten = {}
           /\ secretBuffer' = secretBuffer
           /\ secretLoaded'
           /\ env' = env)]_vars

\* A load has just returned from a loaded store without storing.
C9_Witness ==
  /\ last.op = "load"
  /\ ~last.stored
  /\ ~last.threw
  /\ Resident

\* C10: a load that fails for missing mandatory fields, an unreadable file
\* or a hash mismatch raises an error with a reason and leaves the store
\* empty and the environment untouched; retrieve and validate then fail.
C10_FailedLoadLeavesEmpty ==
  [][(last'.op = "load" /\ last'.threw)
       => (/\ last'.error # <<>>
           /\ ~secretLoaded'
           /\ ~secretBuffer'.ref
           /\ env' = env
           /\ last'.envWritten = {}
           /\ getCredentials(secretBuffer', secretLoaded', "none").error
                = <<ErrUnavailable>>
           /\ validateEnv(build, env', secretBuffer', secretLoaded', "none").obs.threw)]_vars

\* A load has just failed on a file without the mandatory fields.
C10_Witness ==
  /\ last.op = "load"
  /\ last.threw
  /\ last.error = <<ErrCannotProceed, ErrRequiredInFile>>
  /\ file.exists

\* C11: no partial state.  In every state between two calls, sodium calls
\* that raise included, secretLoaded is true exactly when a region is
\* referenced, and a referenced region holds the whole serialized bundle.
C11_NoPartialState ==
  /\ secretLoaded <=> secretBuffer.ref
  /\ secretBuffer.ref => (~secretBuffer.zeroed /\ secretBuffer.bytes # <<>>)

\* C12: clear resets cleanly.  cleanupCredentials returns normally and
\* leaves the store empty (no region referenced, secretLoaded false), so a
\* following getCredentials raises the credential-unavailable error; on an
\* empty store it changes nothing and logs nothing; a further call leaves
\* the state the first one left.
C12_ClearResets ==
  [][last'.op = "clear"
       => (/\ ~last'.threw
           /\ secretBuffer' = NullBuffer
           /\ ~secretLoaded'
           /\ env' = env
           /\ getCredentials(secretBuffer', secretLoaded', "none").error
                = <<ErrUnavailable>>
           /\ ~secretBuffer.ref
                => (/\ secretBuffer' = secretBuffer
                    /\ secretLoaded' = secretLoaded
                    /\ last'.logs = <<>>)
           /\ LET again == cleanupCredentials(secretBuffer', secretLoaded', "none")
              IN  again.buf = secretBuffer' /\ again.loaded = secretLoaded')]_vars

\* A clear has just returned from a store that an earlier clear had emptied:
\* loaded once, never retrieved since, and already empty at the call.
C12_Witness ==
  /\ last.op = "clear"
  /\ last.logs = <<>>
  /\ everLoaded
  /\ retrieved = 0
  /\ ~secretLoaded
  /\ ~secretBuffer.ref

\* C13: clear never fails and always completes the reset.  Whether or not
\* sodium_memzero or sodium_munlock raises, cleanupCredentials returns
\* normally with secretLoaded false and no region referenced.
C13_ClearAlwaysCompletes ==
  [][last'.op = "clear"
       => (~last'.threw /\ ~secretLoaded' /\ ~secretBuffer'.ref)]_vars

\* C14: re-load after consumption.  When a load has stored a bundle, a
\* retrieve followed by a second load (the file and the configured hash as
\* they were, the environment as the first load left it) stores again, and
\* the bundle it makes resident equals the first one, so none of its fields
\* is the redaction marker.
C14_ReloadRestoresBundle ==
  [][(last'.op = "load" /\ last'.stored)
       => LET first == getCredentials(secretBuffer', secretLoaded', "none")
              again == loadSecrets(build, env', file, EXPECTED_ENV_HASH,
                                   first.buf, first.loaded, "none")
              second == getCredentials(again.buf, again.loaded, "none")
          IN  /\ ~first.threw
              /\ again.obs.stored
              /\ again.buf.bytes = secretBuffer'.bytes
              /\ second.value = first.value
              /\ \A f \in Range(CredentialFields) :
                   second.value[1][f] # REDACTED]_vars

\* C16: racing retrievals.  When two callers have both asked for the
\* credentials of a store holding one bundle and both calls have run, in
\* whichever order, exactly one got the bundle and the other the
\* credential-unavailable error; at no time do both hold a bundle, and
\* after a call has run the store is empty, flag and region together.
C16_RacingRetrievals ==
  /\ ~(\A c \in Callers : calls[c].value # <<>>)
  /\ (\E c \in Callers : calls[c].pc = "done")
       => (~secretLoaded /\ secretBuffer = NullBuffer)
  /\ (everLoaded /\ \A c \in Callers : calls[c].pc = "done")
       => \E c \in Callers :
            /\ ~calls[c].threw
            /\ Len(calls[c].value) = 1
            /\ \A d \in Callers \ {c} :
                 /\ calls[d].threw
                 /\ calls[d].error = <<ErrUnavailable>>
                 /\ calls[d].value = <<>>

\* Both callers were queued on the loaded store, B's call ran first and got
\* the bundle, A's call ran second and failed.
C16_Witness ==
  /\ everLoaded
  /\ calls["A"].pc = "done"
  /\ calls["B"].pc = "done"
  /\ calls["A"].error = <<ErrUnavailable>>
  /\ Len(calls["B"].value) = 1
  /\ last.threw

\* C17: empty at exit.  When the process has ended after a successful
\* load, on whichever path (a failed startup, a shutdown), the store is
\* empty: secretLoaded is false and no region is referenced.
C17_EmptyAtExit ==
  (pc = "terminated" /\ everLoaded)
    => (~secretLoaded /\ ~secretBuffer.ref)

(***************************************************************************)
(* Properties of the store at the level of characters and bytes.           *)
(***************************************************************************)
\* C15: load/retrieve round trip.  For every bundle the region load()
\* allocates has room for every byte of the serialized bundle, and the
\* retrieve that follows returns a bundle equal, field by field, to the one
\* load() built.
C15_RoundTrip ==
  [][/\ last'.op = "load"
          => Len(secretBuffer'.bytes)
               >= ByteLength(StringifyChars(last'.value[1]))
     /\ (last.op = "load" /\ last'.op = "retrieve")
          => (/\ ~last'.threw
              /\ Len(last'.value) = 1
              /\ \A f \in Range(CredentialFields) :
                   last'.value[1][f] = last.value[1][f])]_vars

\* The round trip of a bundle of ASCII values, quotes and backslashes
\* included: the retrieve returns what the load built.
C15_AsciiRoundTrip ==
  /\ last.op = "retrieve"
  /\ ~last.threw
  /\ last.value[1]["username"] = << <<"\"", "\\">> >>
  /\ last.value[1]["proxyUrl"] = <<Chars("k3y")>>
  /\ last.value[1]["apiKey"] = <<>>

(***************************************************************************)
(* Properties of the TypeScript sources.                                   *)
(***************************************************************************)
\* The names whose values are credentials that must not be written in clear.
SecretVars ==
  {"TWITTER_PASSWORD", "TWITTER_EMAIL", "TWITTER_API_KEY",
   "TWITTER_API_SECRET_KEY", "TWITTER_ACCESS_TOKEN",
   "TWITTER_ACCESS_TOKEN_SECRET", "TWOFACTOR"}

\* C5: no line of the diagnostic stream contains a credential value
\* (password, e-mail, API key or token, two-factor seed) in clear.
C5_NoSecretInDiag ==
  \A line \in diag : \A v \in SecretVars :
    Truthy(config[v]) => config[v] \notin Range(line.args)

\* C7: mandatory-field enforcement.  scraper.login is called only with
\* credentials from a source that holds username, password and e-mail.
C7_NoLoginFromIncompleteSource ==
  loginCall # <<>> => HasMandatory(config)

\* C18: missing credentials abort startup.  When the configuration read at
\* import lacks a mandatory value (user name, password or e-mail), no
\* scraper.login call is made, the transport is never connected, and once
\* runServer has run the process has exited with status 1.
C18_MissingCredentialsAbort ==
  (envLoaded /\ ~HasMandatory(config))
    => (/\ loginCall = <<>>
        /\ ~connected
        /\ pc # "runServer" => (pc = "exited" /\ exitCode = 1))

(***************************************************************************)
(* Properties of the redacting logger.                                     *)
(***************************************************************************)
\* The text holds v as a substring.
Contains(text, v) ==
  \E i \in 1..(Len(text) - Len(v) + 1) : SubSeq(text, i, i + Len(v) - 1) = v

\* The values V of the fragments K=V of a text: K one of the five key
\* words in any letter case, whatever stands before it; V the longest
\* non-empty run after the '=' without whitespace and '&'.
SensitiveValues(text) ==
  {SubSeq(text, j + 1, j + RunLength(text, j + 1, Whitespace \cup {"&"}, FALSE)) :
     j \in {j \in 1..Len(text) :
              \E k \in DOMAIN SensitiveKeys :
                /\ j - Len(SensitiveKeys[k]) >= 1
                /\ KeyValueAt(text, j - Len(SensitiveKeys[k]), k)}}

\* C19: key=value redaction.  The written line holds the value of no
\* fragment K=V of the texts passed to the logger, whatever precedes K and
\* however long V is.
C19_KeyValueRedacted ==
  emitted.line # ""
    => \A i \in DOMAIN emitted.args :
         \A v \in SensitiveValues(emitted.args[i]) : ~Contains(emitted.line, v)

\* A line was written for a text with a sensitive fragment after a word,
\* and holds the marker in place of the value.
C19_Redacted ==
  /\ emitted.args = <<"retry Token=YWxpY2U6aHVudGVyMjpzZWNyZXQ=&page=2">>
  /\ emitted.line = "[WARN] retry Token=[REDACTED]&page=2\n"

\* The longest runs of 32 or more characters without whitespace and '&'.
LongRuns(text) ==
  {SubSeq(text, i, i + RunLength(text, i, Whitespace \cup {"&"}, FALSE) - 1) :
     i \in {i \in 1..Len(text) :
              /\ (i = 1 \/ SubSeq(text, i - 1, i - 1) \in Whitespace \cup {"&"})
              /\ RunLength(text, i, Whitespace \cup {"&"}, FALSE) >= 32}}

\* C20: long-token redaction.  The written line holds none of the runs of
\* 32 or more characters without whitespace and '&' of the texts passed to
\* the logger, a run with '=' characters in it included.
C20_LongRunRedacted ==
  emitted.line # ""
    => \A i \in DOMAIN emitted.args :
         \A run \in LongRuns(emitted.args[i]) : ~Contains(emitted.line, run)

\* A line was written for a text that is one 40-character run after a
\* word, and holds the long-value marker in its place.
C20_Redacted ==
  /\ emitted.args = <<"Request failed:", "retry user=ABCDEFGHIJKLMNOPQRSTUVWXYZabcdefghij0123 done">>
  /\ emitted.line = "[ERROR] Request failed: retry user=[REDACTED_LONG_VALUE] done\n"

(***************************************************************************)
(* Properties of the parsing of the secret file.                           *)
(***************************************************************************)
\* C24: secret-file parsing.  A load that stores the bundle of the secret
\* file stores the bundle of the values parsed in this way: a line is
\* KEY=VALUE split on its first '=' only, blank lines and lines starting
\* with '#' are ignored, the quotes around a value are stripped.
C24_SecretFileParsing ==
  [][(last'.op = "load" /\ last'.fileRead /\ last'.stored)
       => secretBuffer'.bytes
            = JSONstringify(BuildCredentials(
                TsParseEnvLines(file.lines, [v \in EnvVars |-> Undefined])))]_vars

\* A load stored the bundle of a file whose values hold no '=' and no
\* quotes: user name, password and e-mail address as written.
C24_PlainFileParsed ==
  /\ last.op = "load" /\ last.fileRead /\ last.stored
  /\ file = FileMinimal
  /\ secretBuffer.bytes
       = JSONstringify(BuildCredentials(
           TsParseEnvLines(file.lines, [v \in EnvVars |-> Undefined])))

(***************************************************************************)
(* Properties of the logger on structured arguments.                       *)
(***************************************************************************)
\* C21: structured redaction.  When the logger has written its line, every
\* mapping among its arguments was sanitized at every depth: a field whose
\* name holds 'key' or 'secret' in any letter case holds the marker, every
\* other text went through the replacements for texts, every other value is
\* sanitized in the same way; and the line holds no text that was the value
\* of such a field or stood in the mapping that was its value.
C21_StructuredRedaction ==
  LET heap == emitted.heap
      Named(name) ==
        \E i \in 1..Len(name), n \in {3, 6} :
          /\ i + n - 1 <= Len(name)
          /\ ToLower(SubSeq(name, i, i + n - 1)) \in {Chars("key"), Chars("secret")}
      RECURSIVE Sanitized(_, _)
      Sanitized(v, out) ==
        IF v.kind = "object"
        THEN /\ out.kind = "sanitized"
             /\ DOMAIN out.fields = DOMAIN heap[v.ref]
             /\ \A i \in DOMAIN heap[v.ref] :
                  /\ out.fields[i][1] = heap[v.ref][i][1]
                  /\ IF Named(heap[v.ref][i][1])
                     THEN /\ out.fields[i][2].kind = "string"
                          /\ out.fields[i][2].text = "[REDACTED]"
                     ELSE Sanitized(heap[v.ref][i][2], out.fields[i][2])
        ELSE IF v.kind = "string"
        THEN out.kind = "string" /\ out.text = redactSensitive(v.text)
        ELSE out.kind = v.kind
      Texts(v) ==
        IF v.kind = "string" THEN {v.text}
        ELSE IF v.kind = "object"
        THEN {heap[v.ref][i][2].text :
                i \in {i \in DOMAIN heap[v.ref] : heap[v.ref][i][2].kind = "string"}}
        ELSE {}
      Credentials ==
        UNION {Texts(heap[n][i][2]) :
                 n \in {n \in DOMAIN heap : heap[n] # <<>>}, i \in {1, 2}}
  IN  emitted.result.outcome = "returned"
        => /\ \A i \in DOMAIN emitted.args :
                Sanitized(emitted.args[i], emitted.result.sanitized[i])
           /\ \A n \in DOMAIN heap : \A i \in DOMAIN heap[n] :
                Named(heap[n][i][1])
                  => \A t \in Texts(heap[n][i][2]) :
                       \A k \in DOMAIN emitted.result.stderr :
                         ~Contains(emitted.result.stderr[k], t)

\* A line was written for a request whose nested mapping holds a credential
\* named in mixed case: the marker stands in its place two levels down.
C21_Witness ==
  /\ emitted.result.outcome = "returned"
  /\ Len(emitted.args) = 2
  /\ emitted.heap["request"][2][1] = "auth"
  /\ emitted.heap["request"][2][2].ref = "nested"
  /\ emitted.heap["nested"][1] = <<"Secret_Token", [kind |-> "string", text |-> "s3cr3t", ref |-> ""]>>
  /\ emitted.result.sanitized[2].fields[2][2].fields[1][2].text = "[REDACTED]"
  /\ emitted.result.stderr = <<"[WARN] Request failed: [object Object]\n">>

\* C22: the logger never raises.  Every call returns, with exactly one line
\* written to the diagnostic stream and nothing to the primary output, for
\* texts, numbers, null, undefined, errors, sequences and mappings, nested
\* or referring to themselves.
C22_LoggerNeverRaises ==
  emitted.result.outcome # "pending"
    => /\ emitted.result.outcome = "returned"
       /\ Len(emitted.result.stderr) = 1
       /\ emitted.result.stdout = <<>>

\* The call on an error, a nested mapping, a number and undefined returned
\* with its one line.
C22_Returned ==
  /\ Len(emitted.args) = 4
  /\ emitted.heap["nested"][2][2].kind = "string"
  /\ emitted.result.stderr = <<"[INFO] [object Object] [object Object] 42 \n">>

(***************************************************************************)
(* Properties of the tools.                                                *)
(***************************************************************************)
\* C23: the tools of the README.  A call with a name of the tool table of
\* the README is a call of a tool the list-tools handler returns, and it is
\* not answered with 'Unknown tool'.
C23_ReadmeToolsExposed ==
  LET ReadmeTools ==
        {"profileByUsername", "myProfile", "getTweet", "getUserTweets",
         "sendTweet", "likeTweet", "retweet", "searchTweets", "searchProfiles",
         "getFollowers", "getFollowing", "followUser"}
  IN  (calls["A"].pc = "done" /\ calls["A"].request.name \in ReadmeTools)
        => /\ calls["A"].request.name \in twitterTools
           /\ calls["A"].result.response.error # "Unknown tool"

\* A call of getTweet, a tool of the README, was dispatched: the operation
\* getTweet was issued on the client.
C23_Dispatched ==
  /\ calls["A"].pc = "done"
  /\ calls["A"].request.name = "getTweet"
  /\ calls["A"].result.issued # <<>>
  /\ calls["A"].result.issued[1].op = "getTweet"
  /\ ~calls["A"].result.response.isError

\* C25: re-authentication.  When the ensureAuthenticated of a call found
\* no client, or found the session expired after an earlier successful
\* initialize, a login attempt was made before it returned; and it returned
\* true only if the client then in use is logged in.  (Calls with one
\* ensureAuthenticated, the user name being configured.)
C25_Reauthenticates ==
  (/\ calls["A"].pc = "done"
   /\ Len(calls["A"].result.found) = 1
   /\ Truthy(config["TWITTER_USERNAME"]))
    => /\ (\/ calls["A"].result.found[1] = "none"
           \/ /\ calls["A"].result.found[1] = "expired"
              /\ calls["A"].before.isInitialized)
          => calls["A"].result.logins # <<>>
       /\ calls["A"].result.ensured[1] = "true"
          => calls["A"].result.scraper.loggedIn

\* A call found no client, logged in and went on with the client logged in.
C25_FirstLogin ==
  /\ calls["A"].pc = "done"
  /\ calls["A"].result.found = <<"none">>
  /\ calls["A"].result.logins = <<<<"alice", "hunter2", "a@x.io">>>>
  /\ calls["A"].result.ensured = <<"true">>
  /\ calls["A"].result.scraper.loggedIn

\* C26: one retrieval per login attempt.  A step in which initialize makes a
\* login attempt is a step in which retrieve() returned a bundle, the
\* attempt uses the user name, password and e-mail address of that bundle,
\* and no bundle is resident after it.
C26_OneRetrievalPerLogin ==
  [][loginCall' # loginCall
       => /\ last'.op = "retrieve" /\ ~last'.threw
          /\ last' # last
          /\ SubSeq(loginCall', 1, 3)
               = <<last'.value[1]["username"], last'.value[1]["password"],
                   last'.value[1]["email"]>>
          /\ ~(secretLoaded' /\ secretBuffer'.ref)]_vars

\* C27: media limits.  Every media list that a call of sendTweetWithMedia
\* passes to the sendTweet of the underlying client has at most 4 images,
\* at most 1 video, not both, and only items of the types image/jpeg,
\* image/png, image/gif and video/mp4; a request whose list breaks one of
\* these limits issues no operation and is answered with an error.
C27_MediaLimits ==
  LET Images(m) == {i \in DOMAIN m :
                      m[i].mediaType \in {"image/jpeg", "image/png", "image/gif"}}
      Videos(m) == {i \in DOMAIN m : m[i].mediaType = "video/mp4"}
      Within(m) ==
        /\ Cardinality(Images(m)) <= 4
        /\ Cardinality(Videos(m)) <= 1
        /\ Images(m) = {} \/ Videos(m) = {}
        /\ Images(m) \cup Videos(m) = DOMAIN m
  IN  (calls["A"].pc = "done" /\ calls["A"].request.name = "sendTweetWithMedia")
        => /\ \A i \in DOMAIN calls["A"].result.issued :
                Within(calls["A"].result.issued[i].media)
           /\ ~Within(calls["A"].request.media)
                => /\ calls["A"].result.issued = <<>>
                   /\ calls["A"].result.response.isError

\* A request with five images, the client logged in, was answered with the
\* error about the four images; and nothing was sent.
C27_FiveImagesRejected ==
  /\ calls["A"].pc = "done"
  /\ calls["A"].request.name = "sendTweetWithMedia"
  /\ Len(calls["A"].request.media) = 5
  /\ calls["A"].result.ensured = <<"true">>
  /\ calls["A"].result.scraper.loggedIn
  /\ calls["A"].result.response.isError
  /\ calls["A"].result.response.error = "Maximum of 4 images per tweet allowed"
  /\ calls["A"].result.issued = <<>>

\* C28: video size limit.  A call of uploadMedia or sendTweetWithMedia with
\* a video/mp4 item of 512MB or more (the boundary included) is answered
\* with an error and passes nothing on; lists without such an item are not
\* rejected for their size, whatever the size of their images.
C28_VideoSizeLimit ==
  LET media == calls["A"].request.media
      tooLarge == \E i \in DOMAIN media :
                    /\ media[i].mediaType = "video/mp4"
                    /\ media[i].size >= 512 * 1024 * 1024
  IN  (/\ calls["A"].pc = "done"
       /\ calls["A"].request.name \in {"uploadMedia", "sendTweetWithMedia"}
       /\ calls["A"].result.ensured # <<>>
       /\ calls["A"].result.ensured[1] # "raised")
        => IF tooLarge
           THEN /\ calls["A"].result.response.isError
                /\ calls["A"].result.issued = <<>>
           ELSE calls["A"].result.response.error
                  # "Video file size exceeds maximum limit of 512MB"

\* A video one byte over 512MB was rejected for its size by uploadMedia.
C28_OverLimitRejected ==
  /\ calls["A"].pc = "done"
  /\ calls["A"].request.name = "uploadMedia"
  /\ calls["A"].request.media[1].size = MaxVideoBytes + 1
  /\ calls["A"].result.response.isError
  /\ calls["A"].result.response.error
       = "Video file size exceeds maximum limit of 512MB"

\* C29: count is a maximum.  A list tool (getUserTweets, getListTweets,
\* searchTweets, searchProfiles, getTwitterFollowers, getTwitterFollowing)
\* returns no more items than the count of its request, positive or
\* negative (none for a negative count), and no more than 20 when the count
\* is omitted or 0; the tools that read a sequence item by item read no
\* more items than they return.
C29_CountIsMaximum ==
  (/\ calls["A"].pc = "done"
   /\ Dispatch(calls["A"].request.name).limit # "none"
   /\ ~calls["A"].result.response.isError)
    => /\ calls["A"].result.response.items
            <= (IF calls["A"].request.count \in {<<>>, <<0>>} THEN 20
                ELSE IF calls["A"].request.count[1] < 0 THEN 0
                ELSE calls["A"].request.count[1])
       /\ Dispatch(calls["A"].request.name).limit = "break"
            => calls["A"].result.read <= calls["A"].result.response.items

\* A search for 2 tweets, 21 being there, returned 2 and read 2.
C29_Limited ==
  /\ calls["A"].pc = "done"
  /\ calls["A"].request.name = "searchTweets"
  /\ calls["A"].request.count = <<2>>
  /\ calls["A"].result.response.items = 2
  /\ calls["A"].result.read = 2
  /\ calls["A"].result.issued # <<>>

\* C30: no operation without authentication.  Every operation of a call is
\* issued on a client on which a login has succeeded and that has not been
\* logged out since (for the client in use, the wrapper's isInitialized
\* tells just that); and a call one of whose ensureAuthenticated returned
\* false issues no operation.
C30_NoOperationUnauthenticated ==
  calls["A"].pc = "done"
    => /\ calls["A"].result.issued # <<>> => calls["A"].result.isInitialized
       /\ (\E i \in DOMAIN calls["A"].result.ensured :
             calls["A"].result.ensured[i] = "false")
            => calls["A"].result.issued = <<>>

\* A call found no client and could not log in: it raised and issued no
\* operation.
C30_FailedLoginIssuesNothing ==
  /\ calls["A"].pc = "done"
  /\ calls["A"].request.name = "likeTweet"
  /\ calls["A"].result.found = <<"none">>
  /\ calls["A"].result.logins # <<>>
  /\ calls["A"].result.ensured = <<"raised">>
  /\ calls["A"].result.issued = <<>>
  /\ calls["A"].result.response.isError

\* C34: advertised and dispatched tools coincide.  The name of a call has a
\* branch in the call-tool handler exactly if the list-tools handler returns
\* it; and a call whose name the list-tools handler does not return is
\* answered with the error 'Unknown tool', no ensureAuthenticated having run
\* and no operation having been issued.
C34_AdvertisedIsDispatched ==
  calls["A"].pc = "done"
    => /\ Dispatch(calls["A"].request.name).method # "Unknown tool"
            <=> calls["A"].request.name \in twitterTools
       /\ calls["A"].request.name \notin twitterTools
            => /\ calls["A"].result.response.isError
               /\ calls["A"].result.response.error = "Unknown tool"
               /\ calls["A"].result.ensured = <<>>
               /\ calls["A"].result.issued = <<>>

\* A call of deleteTweet, which is neither advertised nor dispatched, was
\* answered with 'Unknown tool'; the wrapper was left as it was.
C34_UnknownTool ==
  /\ calls["A"].pc = "done"
  /\ calls["A"].request.name = "deleteTweet"
  /\ calls["A"].result.response.isError
  /\ calls["A"].result.response.error = "Unknown tool"
  /\ calls["A"].result.issued = <<>>
  /\ calls["A"].result.logins = <<>>
  /\ calls["A"].result.scraper = calls["A"].before.scraper

\* C32: the call-tool handler never raises.  Whatever the name of the tool,
\* whatever its arguments (given, empty or missing) and whatever the wrapper
\* throws, the handler returns a response; and when an error was thrown the
\* response has isError true and an error message.
C32_HandlerNeverRaises ==
  calls["A"].pc = "done"
    => /\ calls["A"].result.response.outcome = "returned"
       /\ calls["A"].result.thrown
            => /\ calls["A"].result.response.isError
               /\ calls["A"].result.response.error # ""

\* The likeTweet of the underlying client raised, the wrapper threw the
\* error on, and the handler answered it with an error response.
C32_ThrownErrorAnswered ==
  /\ calls["A"].pc = "done"
  /\ calls["A"].request.name = "likeTweet"
  /\ calls["A"].request.arguments = "given"
  /\ calls["A"].result.failed
  /\ calls["A"].result.thrown
  /\ calls["A"].result.response.outcome = "returned"
  /\ calls["A"].result.response.isError
  /\ calls["A"].result.response.error = "Error processing request"

\* C33: failures are reported, not masked.  When an operation of the
\* underlying client raised during a call, or an ensureAuthenticated of the
\* call returned false or raised, the response has isError true.
C33_FailuresReported ==
  (/\ calls["A"].pc = "done"
   /\ \/ calls["A"].result.failed
      \/ \E i \in DOMAIN calls["A"].result.ensured :
           calls["A"].result.ensured[i] \in {"false", "raised"})
    => calls["A"].result.response.isError

\* The getProfile of the underlying client raised under getUserBio, the
\* client being logged in: the response is an error.
C33_FailedBioReported ==
  /\ calls["A"].pc = "done"
  /\ calls["A"].request.name = "getUserBio"
  /\ calls["A"].result.ensured = <<"true">>
  /\ calls["A"].result.scraper.loggedIn
  /\ calls["A"].result.failed
  /\ calls["A"].result.issued # <<>>
  /\ calls["A"].result.response.isError

(***************************************************************************)
(* Properties of concurrent calls of the wrapper.                          *)
(***************************************************************************)
\* C31: concurrent initialization.  isInitialized is true only if the
\* instance the wrapper references is one on which a login has succeeded;
\* and while a caller awaits a login, the wrapper references the instance of
\* that login and no other caller has read the credentials for a login of
\* its own.
C31_ConcurrentInitialization ==
  /\ isInitialized
       => scraper.ref /\ scraper.instance \in scraper.succeeded
  /\ \A c \in Callers :
       calls[c].pc = "login"
         => /\ scraper.instance = calls[c].instance
            /\ \A d \in Callers \ {c} : calls[d].pc # "login"

\* A caller arrived after the login of the other had succeeded: its
\* ensureAuthenticated found the client logged in and returned true, no
\* second instance having been created.
C31_SecondCallerAfterLogin ==
  /\ isInitialized
  /\ scraper.created = 1
  /\ scraper.loggedIn
  /\ calls["A"].pc = "done" /\ calls["A"].kind = "initialize"
  /\ calls["A"].result = "returned"
  /\ calls["B"].pc = "done" /\ calls["B"].kind = "ensureAuthenticated"
  /\ calls["B"].result = "true"

====
